---- MODULE Spec2Model ----
(***************************************************************************)
(* Habitaclia scrapers: HabitacliaScraperImproved (src/main.py) and        *)
(* HabitacliaMultiCityScraper (habitaclia/scraper/core.py).                *)
(*                                                                         *)
(* Text is modelled as a sequence of tokens (short strings), so that the   *)
(* substring tests, prefix tests and concatenations of the code are        *)
(* computed on the model's URLs exactly as the code computes them.         *)
(***************************************************************************)
EXTENDS Naturals, Integers, Sequences, FiniteSets, TLC

VARIABLES
    \* ---- get_search_urls, applied to drawn arguments
    uCity, uType, uPages, uImproved, uCore,
    \* ---- link discovery on one parsed search page, both variants
    dPage, dImproved, dCore, dImprovedList, dCoreList,
    \* ---- HabitacliaScraperImproved.scrape_properties (src/main.py)
    mPc, mSearchUrls, mIdx, mAttempt, mLog, mReturn, mAllLinks, mTodo,
    mFetched, properties_data,
    \* ---- HabitacliaMultiCityScraper.scrape_multiple_cities (core.py)
    cPc, cCities, cValid, cI, cMaxPages, cSearchUrls, cSearchIdx, cAllLinks,
    cTodo, cCityProps, all_properties_data, cReturn, cLog, cOutcomes,
    cFetched, cCalls, json_data,
    \* ---- _extract_price on one page, both variants
    pPage, pCore, pImproved,
    \* ---- _extract_specifications on one page text (core.py)
    sText, sCore,
    \* ---- _extract_description on one description element (core.py)
    eText, eCore,
    \* ---- _extract_images on one page, both variants
    iPage, iMaxImages, iCore, iImproved,
    \* ---- PropertyDataValidator.validate_property on one record
    vRecord, vResult,
    \* ---- PropertyDataValidator.clean_dataset on one list of records
    kInput, kOnce, kTwice,
    \* ---- PropertyDataValidator.validate_dataset on one list of records
    rInput, rReport,
    \* ---- PropertyEmbeddingGenerator.process_properties_dataset
    bPc, bTexts, batch_size, bI, all_embeddings, bBatches, bHasEmbedding,
    \* ---- PropertyVectorDB.search_properties on one filters argument
    fFilters, fQuery,
    \* ---- validate_city and get_city_name on one city code
    yCode, yValid, yName,
    \* ---- the requests of both scrapers, statement by statement
    qFn, qPc, qAttempt, session_user_agent, qSince, qBefore, qSent, qGets,
    \* ---- one call of HabitacliaMultiCityScraper.scrape_city, with its lists
    tPc, tCity, tSearchUrls, tIdx, all_property_links, tUniqueLinks, tI,
    city_properties

urlVars  == <<uCity, uType, uPages, uImproved, uCore>>
discVars == <<dPage, dImproved, dCore, dImprovedList, dCoreList>>
mainVars == <<mPc, mSearchUrls, mIdx, mAttempt, mLog, mReturn, mAllLinks,
              mTodo, mFetched, properties_data>>
coreVars == <<cPc, cCities, cValid, cI, cMaxPages, cSearchUrls, cSearchIdx,
              cAllLinks, cTodo, cCityProps, all_properties_data, cReturn, cLog,
              cOutcomes, cFetched, cCalls, json_data>>
priceVars == <<pPage, pCore, pImproved>>
specVars  == <<sText, sCore>>
descVars  == <<eText, eCore>>
imageVars == <<iPage, iMaxImages, iCore, iImproved>>
validVars == <<vRecord, vResult>>
cleanVars == <<kInput, kOnce, kTwice>>
reportVars == <<rInput, rReport>>
\* the state of the validation report and of the search package
embedVars == <<bPc, bTexts, batch_size, bI, all_embeddings, bBatches,
               bHasEmbedding>>
searchVars == <<fFilters, fQuery>>
registryVars == <<yCode, yValid, yName>>
requestVars == <<qFn, qPc, qAttempt, session_user_agent, qSince, qBefore,
                 qSent, qGets>>
scrapeVars == <<tPc, tCity, tSearchUrls, tIdx, all_property_links,
                tUniqueLinks, tI, city_properties>>
moreVars  == <<reportVars, embedVars, searchVars, registryVars, requestVars,
               scrapeVars>>
dataVars  == <<priceVars, specVars, descVars, imageVars, validVars, cleanVars,
               moreVars>>
vars == <<urlVars, discVars, mainVars, coreVars, dataVars>>

-----------------------------------------------------------------------------
(* Bounds of the model *)

\* largest max_pages argument drawn
MaxPages == 3
\* most anchors on a drawn search page
MaxAnchors == 3
\* longest list of city codes handed to scrape_multiple_cities
MaxCities == 2
\* most elements with text on a drawn property page
MaxNodes == 2
\* longest list of records handed to clean_dataset
MaxRecords == 3
\* most rows of the file handed to process_properties_dataset
MaxTexts == 5
\* largest batch size of the embedding generator
MaxBatchSize == 3
\* most GET requests followed
MaxRequests == 4
\* the calls of scrape_multiple_cities made on one scraper
MaxCalls == 2

-----------------------------------------------------------------------------
(* Text helpers *)

\* needle in text (Python's `in` on strings)
Contains(text, needle) ==
    \E i \in 1..(Len(text) + 1 - Len(needle)) :
        SubSeq(text, i, i + Len(needle) - 1) = needle

\* text.startswith(prefix)
StartsWith(text, prefix) ==
    /\ Len(prefix) <= Len(text)
    /\ SubSeq(text, 1, Len(prefix)) = prefix

DigitChar == <<"0", "1", "2", "3", "4", "5", "6", "7", "8", "9">>

\* str(n) of a non-negative integer, as the f-strings format a page number
RECURSIVE Itoa(_)
Itoa(n) ==
    IF n < 10 THEN <<DigitChar[n + 1]>>
    ELSE Itoa(n \div 10) \o <<DigitChar[(n % 10) + 1]>>

\* self.base_url of both scrapers
base_url == <<"http", "s://english.habitaclia.com">>

\* urllib.parse.urljoin(base_url, href) for a base without a path: an href
\* with a scheme is kept, a rooted path replaces the (empty) path, any other
\* path is appended to the root
Urljoin(base, href) ==
    IF href = <<>> THEN base
    ELSE IF StartsWith(href, <<"http">>) THEN href
    ELSE IF href[1] = "/" THEN base \o href
    ELSE base \o <<"/">> \o href

-----------------------------------------------------------------------------
(* City registry *)

\* self.spanish_cities
spanish_cities ==
    [ barcelona |-> "Barcelona", madrid |-> "Madrid", valencia |-> "Valencia",
      sevilla |-> "Sevilla", bilbao |-> "Bilbao", malaga |-> "Málaga",
      zaragoza |-> "Zaragoza", murcia |-> "Murcia",
      palma |-> "Palma de Mallorca" ]
      @@ ("las-palmas" :> "Las Palmas")
      @@ [ valladolid |-> "Valladolid", vigo |-> "Vigo", gijon |-> "Gijón",
           hospitalet |-> "L'Hospitalet", cordoba |-> "Córdoba",
           alicante |-> "Alicante", vitoria |-> "Vitoria-Gasteiz",
           granada |-> "Granada", oviedo |-> "Oviedo" ]
      @@ ("santa-cruz-tenerife" :> "Santa Cruz de Tenerife")
      @@ [ pamplona |-> "Pamplona", almeria |-> "Almería" ]
      @@ ("san-sebastian" :> "San Sebastián")
      @@ [ burgos |-> "Burgos", salamanca |-> "Salamanca", huelva |-> "Huelva",
           lleida |-> "Lleida", tarragona |-> "Tarragona", cadiz |-> "Cádiz",
           jaen |-> "Jaén", santander |-> "Santander" ]
      @@ ("logroño" :> "Logroño")

\* city codes the model draws: registered ones and one that is not registered
ValidCodes == {"barcelona", "madrid"}
CityCodes == ValidCodes \cup {"atlantis"}

-----------------------------------------------------------------------------
(* get_search_urls *)

\* f"{self.base_url}/{kind}-{city}.htm"
FirstPageUrl(kind, city) == base_url \o <<"/", kind, "-", city, ".htm">>

\* f"{self.base_url}/{kind}-{city}-{page}.htm"
PageUrl(kind, city, page) ==
    base_url \o <<"/", kind, "-", city, "-">> \o Itoa(page) \o <<".htm">>

\* urls.append(first); for page in range(2, max_pages + 1): urls.append(...)
UrlsOfKind(kind, city, max_pages) ==
    <<FirstPageUrl(kind, city)>>
        \o [i \in 1..(max_pages - 1) |-> PageUrl(kind, city, i + 1)]

\* HabitacliaMultiCityScraper.get_search_urls
get_search_urls(city, property_type, max_pages) ==
    IF property_type = "rent" THEN UrlsOfKind("rent", city, max_pages)
    ELSE IF property_type = "homes" \/ property_type = "buy"
         THEN UrlsOfKind("homes", city, max_pages)
    ELSE <<>>

\* HabitacliaScraperImproved.get_search_urls
improved_get_search_urls(city, property_type, max_pages) ==
    IF property_type = "rent"
    THEN <<base_url \o <<"/", "rent", "-", city, ".htm">>>>
            \o [i \in 1..(max_pages - 1) |->
                  base_url \o <<"/", "rent", "-", city, "-">> \o Itoa(i + 1)
                           \o <<".htm">>]
    ELSE IF property_type = "homes" \/ property_type = "buy"
    THEN <<base_url \o <<"/", "homes", "-", city, ".htm">>>>
            \o [i \in 1..(max_pages - 1) |->
                  base_url \o <<"/", "homes", "-", city, "-">> \o Itoa(i + 1)
                           \o <<".htm">>]
    ELSE <<>>

PropertyTypes == {"rent", "homes", "buy", "sale"}
NoUrls == <<"not called">>

InitUrls ==
    /\ uCity \in CityCodes
    /\ uType \in PropertyTypes
    /\ uPages \in 0..MaxPages
    /\ uImproved = NoUrls
    /\ uCore = NoUrls

CallGetSearchUrlsImproved ==
    /\ uImproved = NoUrls
    /\ uImproved' = improved_get_search_urls(uCity, uType, uPages)
    /\ UNCHANGED <<uCity, uType, uPages, uCore>>
    /\ UNCHANGED <<discVars, mainVars, coreVars, dataVars>>

CallGetSearchUrlsCore ==
    /\ uCore = NoUrls
    /\ uCore' = get_search_urls(uCity, uType, uPages)
    /\ UNCHANGED <<uCity, uType, uPages, uImproved>>
    /\ UNCHANGED <<discVars, mainVars, coreVars, dataVars>>

-----------------------------------------------------------------------------
(* Link discovery: the 200 branch of extract_property_links *)

\* An anchor of the parsed page: its href (<<>> when the attribute is missing
\* or empty) and the classes and tags of the elements it lies in.
Anchor(href, ctx) == [href |-> href, ctx |-> ctx]

AnchorPool ==
    { Anchor(<<"/", "rent", "-", "barcelona", "-", "i", "101", ".htm">>, {}),
      Anchor(<<"http", "s://english.habitaclia.com", "/", "rent", "-",
               "barcelona", "-", "i", "101", ".htm">>, {"property-item"}),
      Anchor(<<"/", "piso", "-", "barcelona", "-", "i", "500">>, {}),
      Anchor(<<"/", "rent", "-", "madrid", "-", "i", "202", ".htm">>, {}),
      Anchor(<<"/", "rent", "-", "barcelona", "-", "2", ".htm">>, {}),
      Anchor(<<"about", ".htm">>, {"article"}),
      Anchor(<<"/", "flats-houses", "-", "i", "7", ".htm">>, {}),
      Anchor(<<>>, {"property"}) }

\* the pages drawn: every sequence of at most MaxAnchors anchors of the pool
Pages == UNION { [1..n -> AnchorPool] : n \in 0..MaxAnchors }

\* a[href*="n1"][href*="n2"]...: every needle occurs in the href
HrefSelector(needles) == [kind |-> "href", needles |-> needles, cls |-> ""]
\* ".cls a" and "tag a": the anchor lies in such an element
CtxSelector(cls) == [kind |-> "ctx", needles |-> {}, cls |-> cls]

\* soup.select(selector), as the set of positions of the matching anchors
Select(page, selector) ==
    { i \in 1..Len(page) :
        IF selector.kind = "href"
        THEN /\ page[i].href # <<>>
             /\ \A n \in selector.needles : Contains(page[i].href, n)
        ELSE selector.cls \in page[i].ctx }

\* selectors_to_try of HabitacliaScraperImproved.extract_property_links
selectors_to_try ==
    << HrefSelector({<<"-", "barcelona", "-", "i">>}),
       HrefSelector({<<"/", "rent", "-">>, <<"-", "i">>}),
       HrefSelector({<<"/", "homes", "-">>, <<"-", "i">>}),
       HrefSelector({<<"-", "i">>, <<".htm">>}),
       CtxSelector("property-item"),
       CtxSelector("listing-item"),
       CtxSelector("result-item"),
       CtxSelector("article"),
       CtxSelector("property"),
       HrefSelector({<<".htm">>}) >>

\* the number the model gives the general search over all anchors
FallbackStrategy == Len(selectors_to_try) + 1

\* if href and ('-i' in href or 'barcelona' in href) and '.htm' in href
ImprovedKeeps(href) ==
    /\ href # <<>>
    /\ Contains(href, <<"-", "i">>) \/ Contains(href, <<"barcelona">>)
    /\ Contains(href, <<".htm">>)

\* full_url = href if href.startswith('http') else urljoin(base_url, href)
ImprovedFullUrl(href) ==
    IF StartsWith(href, <<"http">>) THEN href ELSE Urljoin(base_url, href)

\* the links one selector appends to property_links
ImprovedSelectorLinks(page, k) ==
    { ImprovedFullUrl(page[i].href) :
        i \in { j \in Select(page, selectors_to_try[k]) :
                  ImprovedKeeps(page[j].href) } }

\* What the discovery has gathered: property_links (as the set that
\* list(set(...)) makes of it), the strategies that appended a link to it
\* and the selectors whose select() returned an anchor.
NoLinks == [links |-> {}, contrib |-> {}, matched |-> {}]

Appended(acc, k, links, didMatch) ==
    [ links   |-> acc.links \cup links,
      contrib |-> IF links = {} THEN acc.contrib ELSE acc.contrib \cup {k},
      matched |-> IF didMatch THEN acc.matched \cup {k} ELSE acc.matched ]

\* a faulty variant: the loop over the selectors has no break
RECURSIVE ImprovedSelectorLoopNoBreak(_, _, _)
ImprovedSelectorLoopNoBreak(page, k, acc) ==
    IF k > Len(selectors_to_try) THEN acc
    ELSE ImprovedSelectorLoopNoBreak(page, k + 1,
            Appended(acc, k, ImprovedSelectorLinks(page, k),
                     Select(page, selectors_to_try[k]) # {}))

\* for selector in selectors_to_try: links = select; if links: append; break
RECURSIVE ImprovedSelectorLoop(_, _, _)
ImprovedSelectorLoop(page, k, acc) ==
    IF k > Len(selectors_to_try) THEN acc
    ELSE IF Select(page, selectors_to_try[k]) # {}
         THEN Appended(acc, k, ImprovedSelectorLinks(page, k), TRUE)
         ELSE ImprovedSelectorLoop(page, k + 1, acc)

\* soup.find_all('a', href=True), kept when
\* href and 'barcelona' in href and ('.htm' in href or '.html' in href)
ImprovedFallbackLinks(page) ==
    { Urljoin(base_url, page[i].href) :
        i \in { j \in 1..Len(page) :
                  /\ page[j].href # <<>>
                  /\ Contains(page[j].href, <<"barcelona">>)
                  /\ \/ Contains(page[j].href, <<".htm">>)
                     \/ Contains(page[j].href, <<".htm", "l">>) } }

\* HabitacliaScraperImproved.extract_property_links on a page fetched with 200
ImprovedDiscover(page) ==
    LET acc == ImprovedSelectorLoop(page, 1, NoLinks)
    IN  IF acc.links = {}
        THEN Appended(acc, FallbackStrategy, ImprovedFallbackLinks(page), FALSE)
        ELSE acc

\* selectors of HabitacliaMultiCityScraper.extract_property_links
selectors ==
    << HrefSelector({<<"-", "i">>}),
       HrefSelector({<<"/", "rent", "-">>, <<"-", "i">>}),
       HrefSelector({<<"/", "homes", "-">>, <<"-", "i">>}) >>

\* if href and '.htm' in href and 'flats-houses' not in href
CoreKeeps(href) ==
    /\ href # <<>>
    /\ Contains(href, <<".htm">>)
    /\ ~Contains(href, <<"flats-houses">>)

\* the links one selector appends to property_links
CoreSelectorLinks(page, k) ==
    { Urljoin(base_url, page[i].href) :
        i \in { j \in Select(page, selectors[k]) : CoreKeeps(page[j].href) } }

\* a faulty variant: the loop over the selectors has no break
RECURSIVE CoreSelectorLoopNoBreak(_, _, _)
CoreSelectorLoopNoBreak(page, k, acc) ==
    IF k > Len(selectors) THEN acc
    ELSE CoreSelectorLoopNoBreak(page, k + 1,
            Appended(acc, k, CoreSelectorLinks(page, k),
                     Select(page, selectors[k]) # {}))

\* for selector in selectors: append the kept links; if property_links: break
RECURSIVE CoreSelectorLoop(_, _, _)
CoreSelectorLoop(page, k, acc) ==
    IF k > Len(selectors) THEN acc
    ELSE LET next == Appended(acc, k, CoreSelectorLinks(page, k),
                              Select(page, selectors[k]) # {})
         IN  IF next.links # {} THEN next
             ELSE CoreSelectorLoop(page, k + 1, next)

\* HabitacliaMultiCityScraper.extract_property_links on a page fetched with 200
CoreDiscover(page) == CoreSelectorLoop(page, 1, NoLinks)

NotDiscovered == [links |-> {}, contrib |-> {"not called"}, matched |-> {}]

\* the positions of a page, in document order
Positions(page) == [i \in 1..Len(page) |-> i]

\* property_links after the loop over selectors_to_try, as the list the code
\* builds: one entry per kept anchor of the first selector with a match
ImprovedSelectorList(page) ==
    LET hit == { k \in 1..Len(selectors_to_try) :
                   Select(page, selectors_to_try[k]) # {} }
    IN  IF hit = {} THEN <<>>
        ELSE LET k   == CHOOSE m \in hit : \A n \in hit : m <= n
                 idx == SelectSeq(Positions(page),
                          LAMBDA j : /\ j \in Select(page, selectors_to_try[k])
                                     /\ ImprovedKeeps(page[j].href))
             IN  [n \in 1..Len(idx) |-> ImprovedFullUrl(page[idx[n]].href)]

\* the entries the search over all anchors appends to property_links
ImprovedFallbackList(page) ==
    LET idx == SelectSeq(Positions(page),
                 LAMBDA j : /\ page[j].href # <<>>
                            /\ Contains(page[j].href, <<"barcelona">>)
                            /\ \/ Contains(page[j].href, <<".htm">>)
                               \/ Contains(page[j].href, <<".htm", "l">>))
    IN  [n \in 1..Len(idx) |-> Urljoin(base_url, page[idx[n]].href)]

\* property_links of HabitacliaScraperImproved before the duplicates go
ImprovedPropertyLinks(page) ==
    IF ImprovedSelectorList(page) = <<>>
    THEN ImprovedFallbackList(page)
    ELSE ImprovedSelectorList(page)

\* the entries selector k appends in HabitacliaMultiCityScraper
CoreSelectorList(page, k) ==
    LET idx == SelectSeq(Positions(page),
                 LAMBDA j : /\ j \in Select(page, selectors[k])
                            /\ CoreKeeps(page[j].href))
    IN  [n \in 1..Len(idx) |-> Urljoin(base_url, page[idx[n]].href)]

\* property_links of HabitacliaMultiCityScraper before the duplicates go
RECURSIVE CorePropertyLinks(_, _)
CorePropertyLinks(page, k) ==
    IF k > Len(selectors) THEN <<>>
    ELSE IF CoreSelectorList(page, k) # <<>> THEN CoreSelectorList(page, k)
         ELSE CorePropertyLinks(page, k + 1)

\* a faulty variant of unique_links: the list is returned as it was built
unique_links_kept(property_links) == property_links

\* unique_links = list(set(property_links)): the distinct entries, in an
\* order the code does not fix
unique_links(property_links) ==
    LET s == { property_links[i] : i \in 1..Len(property_links) }
    IN  CHOOSE q \in [1..Cardinality(s) -> s] :
            { q[i] : i \in 1..Cardinality(s) } = s

InitDiscover ==
    /\ dPage \in Pages
    /\ dImproved = NotDiscovered
    /\ dCore = NotDiscovered
    /\ dImprovedList = <<>>
    /\ dCoreList = <<>>

DiscoverImproved ==
    /\ dImproved = NotDiscovered
    /\ dImproved' = ImprovedDiscover(dPage)
    /\ dImprovedList' = unique_links(ImprovedPropertyLinks(dPage))
    /\ UNCHANGED <<dPage, dCore, dCoreList>>
    /\ UNCHANGED <<urlVars, mainVars, coreVars, dataVars>>

DiscoverCore ==
    /\ dCore = NotDiscovered
    /\ dCore' = CoreDiscover(dPage)
    /\ dCoreList' = unique_links(CorePropertyLinks(dPage, 1))
    /\ UNCHANGED <<dPage, dImproved, dImprovedList>>
    /\ UNCHANGED <<urlVars, mainVars, coreVars, dataVars>>

-----------------------------------------------------------------------------
(* HabitacliaScraperImproved.scrape_properties and the two calls it makes,  *)
(* extract_property_links (with its retry loop) and extract_property_data.  *)
(* mLog is what the call in progress (or the one that just returned) did:   *)
(* user-agent rotations, waits, GET requests and what answered them.        *)

\* max_retries=3, the default scrape_properties calls with
max_retries == 3

\* status codes a GET answers with
StatusCodes == {200, 403, 404, 500}

\* parsed search pages a 200 answer carries
SamplePages ==
    { <<>>,
      << Anchor(<<"/", "rent", "-", "barcelona", "-", "i", "101", ".htm">>, {}),
         Anchor(<<"http", "s://english.habitaclia.com", "/", "rent", "-",
                  "barcelona", "-", "i", "101", ".htm">>, {"property-item"}) >>,
      << Anchor(<<"/", "rent", "-", "madrid", "-", "i", "202", ".htm">>, {}),
         Anchor(<<"/", "rent", "-", "barcelona", "-", "i", "101", ".htm">>, {}) >> }

\* max_pages arguments scrape_properties is run with
RunPages == 1..2

Ev(name) == [ev |-> name, code |-> 0]
Answer(code) == [ev |-> "status", code |-> code]

\* self.rotate_user_agent(); time.sleep(random.uniform(8, 15));
\* response = self.session.get(search_url, timeout=30)
RequestEvents == <<Ev("rotate"), Ev("pace"), Ev("get")>>

\* time.sleep(random.uniform(30, 60))
BackoffEvents == <<Ev("backoff")>>

\* a faulty variant of FirstAttempt: the counter of the earlier call is kept
FirstAttemptShared(used) == used

\* the value `attempt` has when a call of extract_property_links enters its
\* loop: for attempt in range(max_retries), whatever an earlier call used
FirstAttempt(used) == 0

InitImproved ==
    /\ mPc = "idle"
    /\ mSearchUrls = <<>>
    /\ mIdx = 0
    /\ mAttempt = 0
    /\ mLog = <<>>
    /\ mReturn = {}
    /\ mAllLinks = {}
    /\ mTodo = {}
    /\ mFetched = <<>>
    /\ properties_data = <<>>

\* scrape_properties, up to the first call of extract_property_links
ScrapeProperties ==
    /\ mPc = "idle"
    /\ \E property_type \in {"rent", "sale"}, max_pages \in RunPages :
         LET search_urls ==
                 improved_get_search_urls("barcelona", property_type, max_pages)
         IN  /\ mSearchUrls' = search_urls
             /\ IF search_urls = <<>>
                THEN mPc' = "done" /\ mIdx' = 0
                ELSE mPc' = "links" /\ mIdx' = 1
    /\ mAttempt' = FirstAttempt(mAttempt)
    /\ mLog' = <<>>
    /\ UNCHANGED <<mReturn, mAllLinks, mTodo, mFetched, properties_data>>
    /\ UNCHANGED <<urlVars, discVars, coreVars, dataVars>>

\* extract_property_links returns `result`
LinksReturn(result, log) ==
    /\ mPc' = "returned"
    /\ mReturn' = result
    /\ mLog' = log
    /\ UNCHANGED <<mSearchUrls, mIdx, mAttempt, mAllLinks, mTodo, mFetched,
                   properties_data>>
    /\ UNCHANGED <<urlVars, discVars, coreVars, dataVars>>

\* continue: the next pass of for attempt in range(max_retries)
LinksNextAttempt(log) ==
    /\ mAttempt' = mAttempt + 1
    /\ mLog' = log
    /\ UNCHANGED <<mPc, mSearchUrls, mIdx, mReturn, mAllLinks, mTodo, mFetched,
                   properties_data>>
    /\ UNCHANGED <<urlVars, discVars, coreVars, dataVars>>

\* an exception leaves extract_property_links
LinksRaise(log) ==
    /\ mPc' = "raised"
    /\ mLog' = log
    /\ UNCHANGED <<mSearchUrls, mIdx, mAttempt, mReturn, mAllLinks, mTodo,
                   mFetched, properties_data>>
    /\ UNCHANGED <<urlVars, discVars, coreVars, dataVars>>

\* elif response.status_code == 403: warning; sleep(30..60); continue
On403(log) == LinksNextAttempt(log \o BackoffEvents)

\* a faulty variant of On404: the 404 is retried like a 403
On404Retry(log) == LinksNextAttempt(log \o BackoffEvents)

\* if response.status_code == 404: warning; return []
On404(log) == LinksReturn({}, log)

\* elif response.status_code != 200: warning; continue
OnOtherStatus(log) == LinksNextAttempt(log)

\* a faulty variant of OnRequestException: the last failure is raised to the caller
OnRequestExceptionRaise(log) ==
    IF mAttempt < max_retries - 1
    THEN LinksNextAttempt(log \o BackoffEvents)
    ELSE LinksRaise(log)

\* except requests.exceptions.RequestException: if attempt < max_retries - 1:
\* sleep(30..60); continue; else: return []
OnRequestException(log) ==
    IF mAttempt < max_retries - 1
    THEN LinksNextAttempt(log \o BackoffEvents)
    ELSE LinksReturn({}, log)

\* one pass of the retry loop whose GET is answered with a status code
AttemptStatus ==
    /\ mPc = "links"
    /\ mAttempt < max_retries
    /\ \E code \in StatusCodes :
         LET log == mLog \o RequestEvents \o <<Answer(code)>>
         IN  IF code = 404 THEN On404(log)
             ELSE IF code = 403 THEN On403(log)
             ELSE IF code # 200 THEN OnOtherStatus(log)
             ELSE \E page \in SamplePages :
                      LinksReturn(ImprovedDiscover(page).links, log)

\* one pass of the retry loop whose GET fails in the transport
AttemptRequestException ==
    /\ mPc = "links"
    /\ mAttempt < max_retries
    /\ OnRequestException(mLog \o RequestEvents \o <<Ev("RequestException")>>)

\* one pass of the retry loop in which any other exception is raised once the
\* page is there: except Exception: return []
AttemptOtherException ==
    /\ mPc = "links"
    /\ mAttempt < max_retries
    /\ LinksReturn({}, mLog \o RequestEvents \o <<Answer(200), Ev("Exception")>>)

\* the loop ends without a return: return []
RetriesExhausted ==
    /\ mPc = "links"
    /\ mAttempt >= max_retries
    /\ LinksReturn({}, mLog)

\* scrape_properties after extract_property_links returned: extend
\* all_property_links, wait between pages, call for the next search URL; after
\* the last one unique_links = list(set(...)), return when there is none
AfterLinks ==
    /\ mPc = "returned"
    /\ mAllLinks' = mAllLinks \cup mReturn
    /\ IF mIdx < Len(mSearchUrls)
       THEN /\ mIdx' = mIdx + 1
            /\ mPc' = "links"
            /\ mAttempt' = FirstAttempt(mAttempt)
            /\ mLog' = <<>>
            /\ mTodo' = mTodo
       ELSE /\ mTodo' = mAllLinks'
            /\ mPc' = IF mAllLinks' = {} THEN "done" ELSE "properties"
            /\ mLog' = <<>>
            /\ UNCHANGED <<mIdx, mAttempt>>
    /\ UNCHANGED <<mSearchUrls, mReturn, mFetched, properties_data>>
    /\ UNCHANGED <<urlVars, discVars, coreVars, dataVars>>

\* property_data of a page fetched and parsed (its extracted fields left out)
ImprovedRecord(url) ==
    [url |-> url, status |-> "success", error |-> ""]

\* the dictionary the except branch of extract_property_data returns
ImprovedErrorRecord(url, e) ==
    [url |-> url, status |-> "error", error |-> e]

\* how a property call can go: the GET raises in the transport, or answers
\* with a status code and, on 200, the parsing raises or does not
PropertyFetches ==
    { [code |-> 0, raised |-> "RequestException"] }
        \cup { [code |-> c, raised |-> ""] : c \in StatusCodes }
        \cup { [code |-> 200, raised |-> "ParseError"] }

\* a faulty variant: the except branch returns None, as the other variant does
improved_extract_property_data_none(url, fetch) ==
    IF fetch.code = 200 /\ fetch.raised = "" THEN <<ImprovedRecord(url)>> ELSE <<>>

\* what HabitacliaScraperImproved.extract_property_data returns, <<>> for None
improved_extract_property_data(url, fetch) ==
    IF fetch.raised = "RequestException"
    THEN <<ImprovedErrorRecord(url, fetch.raised)>>
    ELSE IF fetch.code # 200 THEN <<>>
    ELSE IF fetch.raised # "" THEN <<ImprovedErrorRecord(url, fetch.raised)>>
    ELSE <<ImprovedRecord(url)>>

\* scrape_properties: the pass of the loop over unique_links for one link
\* (a set's order is any order): if property_data: append it.
\* mFetched keeps how the fetch of each link went.
ScrapeOneProperty ==
    /\ mPc = "properties"
    /\ \E url \in mTodo, fetch \in PropertyFetches :
         /\ properties_data' =
                properties_data \o improved_extract_property_data(url, fetch)
         /\ mFetched' = Append(mFetched, [url |-> url, code |-> fetch.code,
                                          raised |-> fetch.raised])
         /\ mTodo' = mTodo \ {url}
         /\ mPc' = IF mTodo' = {} THEN "done" ELSE "properties"
    /\ mLog' = RequestEvents
    /\ UNCHANGED <<mSearchUrls, mIdx, mAttempt, mReturn, mAllLinks>>
    /\ UNCHANGED <<urlVars, discVars, coreVars, dataVars>>

NextImproved ==
    \/ ScrapeProperties
    \/ AttemptStatus
    \/ AttemptRequestException
    \/ AttemptOtherException
    \/ RetriesExhausted
    \/ AfterLinks
    \/ ScrapeOneProperty

-----------------------------------------------------------------------------
(* HabitacliaMultiCityScraper.scrape_multiple_cities, scrape_city and the   *)
(* calls they make.  cLog is what the scraper did, in order; cOutcomes      *)
(* keeps, per city left, what scrape_city returned or that it raised;       *)
(* cFetched keeps how the fetch of each property page of the city being     *)
(* scraped went.                                                            *)

CEv(name, arg) == [ev |-> name, arg |-> arg]

\* self.spanish_cities.get(city_code, city_code)
CityName(city_code) ==
    IF city_code \in DOMAIN spanish_cities THEN spanish_cities[city_code]
    ELSE city_code

\* a faulty variant of ValidCities: no code is dropped
ValidCitiesAll(cities) == cities

\* valid_cities = [city for city in cities if city in self.spanish_cities]
ValidCities(cities) ==
    SelectSeq(cities, LAMBDA c : c \in DOMAIN spanish_cities)

\* invalid_cities = [city for city in cities if city not in self.spanish_cities]
InvalidCities(cities) ==
    SelectSeq(cities, LAMBDA c : c \notin DOMAIN spanish_cities)

\* the lists of city codes scrape_multiple_cities is called with
CityLists == UNION { [1..n -> CityCodes] : n \in 0..MaxCities }

\* max_pages arguments scrape_multiple_cities is run with
CorePages == 1..2

\* property_data of a page fetched and parsed (its extracted fields left out)
CoreRecord(url, city_code) ==
    [url |-> url, city_code |-> city_code, city_name |-> CityName(city_code),
     status |-> "success"]

\* what HabitacliaMultiCityScraper.extract_property_data returns, <<>> for
\* None: None on a status other than 200 and on every exception
extract_property_data(url, city_code, fetch) ==
    IF fetch.raised # "" THEN <<>>
    ELSE IF fetch.code # 200 THEN <<>>
    ELSE <<CoreRecord(url, city_code)>>

\* how a search-page call can go: the GET raises, or answers with a status
\* code and, on 200, a page
SearchFetches ==
    { [code |-> 0, raised |-> "RequestException", page |-> <<>>] }
        \cup { [code |-> c, raised |-> "", page |-> <<>>] : c \in StatusCodes \ {200} }
        \cup { [code |-> 200, raised |-> "", page |-> p] : p \in SamplePages }

\* what HabitacliaMultiCityScraper.extract_property_links returns: [] on a
\* status other than 200 and on every exception
extract_property_links(fetch) ==
    IF fetch.raised # "" THEN {}
    ELSE IF fetch.code # 200 THEN {}
    ELSE CoreDiscover(fetch.page).links

\* self.rotate_user_agent(); time.sleep(random.uniform(*delay_range));
\* response = self.session.get(url, timeout=...)
CoreRequestEvents(url) == <<CEv("rotate", <<>>), CEv("pace", <<>>), CEv("get", url)>>

EmptyNames == [name \in {} |-> 1]

\* no file has been written
NoJson ==
    [ written |-> FALSE, total_properties |-> 0, cities |-> EmptyNames,
      properties |-> <<>> ]

\* a faulty variant of city_names: the names are not made a set
city_names_repeated(records) ==
    [ name \in { records[i].city_name : i \in 1..Len(records) } |->
        Cardinality({ i \in 1..Len(records) : records[i].city_name = name }) ]

\* list(set(prop.get('city_name', '') for prop in ...)), as the number of
\* times the list holds each name (the order of the list is not kept)
city_names(records) ==
    [ name \in { records[i].city_name : i \in 1..Len(records) } |-> 1 ]

\* json_data of save_to_json and of DataExporter.save_json: the metadata
\* the model keeps and the properties
JsonData(records, cities) ==
    [ written |-> TRUE, total_properties |-> Len(records), cities |-> cities,
      properties |-> records ]

InitCore ==
    /\ cPc = "idle"
    /\ cCities = <<>>
    /\ cValid = <<>>
    /\ cI = 0
    /\ cMaxPages = 0
    /\ cSearchUrls = <<>>
    /\ cSearchIdx = 0
    /\ cAllLinks = {}
    /\ cTodo = {}
    /\ cCityProps = <<>>
    /\ all_properties_data = <<>>
    /\ cReturn = <<>>
    /\ cLog = <<>>
    /\ cOutcomes = <<>>
    /\ cFetched = <<>>
    /\ cCalls = 0
    /\ json_data = NoJson

\* scrape_city(city_code, property_type, max_pages) up to its first request
EnterCity(i, valid, max_pages, log) ==
    /\ cI' = i
    /\ cPc' = "search"
    /\ cReturn' = cReturn
    /\ cSearchUrls' = get_search_urls(valid[i], "rent", max_pages)
    /\ cSearchIdx' = 1
    /\ cAllLinks' = {}
    /\ cTodo' = {}
    /\ cCityProps' = <<>>
    /\ cFetched' = <<>>
    /\ cLog' = Append(log, CEv("scrape_city", <<valid[i]>>))

\* return self.all_properties_data, after the loop over valid_cities
LeaveLoop(data, log) ==
    /\ cPc' = "returned"
    /\ cReturn' = data
    /\ cLog' = log
    /\ UNCHANGED <<cI, cSearchUrls, cSearchIdx, cAllLinks, cTodo, cCityProps,
                   cFetched>>

\* scrape_multiple_cities(cities, "rent", max_pages) up to the first request:
\* the codes are validated, and with no valid code the call returns []; the
\* call does not assign self.all_properties_data
scrape_multiple_cities(cities, max_pages) ==
    LET valid_cities == ValidCities(cities)
    IN  /\ cCities' = cities
        /\ cValid' = valid_cities
        /\ cMaxPages' = max_pages
        /\ IF valid_cities = <<>>
           THEN /\ cPc' = "returned"
                /\ cReturn' = <<>>
                /\ cLog' = <<>>
                /\ UNCHANGED <<cI, cSearchUrls, cSearchIdx, cAllLinks,
                               cTodo, cCityProps, cFetched>>
           ELSE EnterCity(1, valid_cities, max_pages, <<>>)
        /\ cCalls' = cCalls + 1
        /\ cOutcomes' = <<>>
        /\ UNCHANGED all_properties_data
        /\ UNCHANGED <<json_data, urlVars, discVars, mainVars, dataVars>>

\* the first call of scrape_multiple_cities on a scraper
ScrapeMultipleCities ==
    /\ cPc = "idle"
    /\ \E cities \in CityLists, max_pages \in CorePages :
         scrape_multiple_cities(cities, max_pages)

\* the lists of city codes the calls of a sequence of calls are given
CallCityLists ==
    { <<>>, <<"atlantis">>, <<"barcelona">>, <<"atlantis", "madrid">> }

\* the max_pages argument of the calls of a sequence of calls
CallPages == {1}

\* a call of scrape_multiple_cities on a scraper that is new or whose last
\* call has returned
CallScrapeMultipleCities ==
    /\ cPc \in {"idle", "returned"}
    /\ cCalls < MaxCalls
    /\ \E cities \in CallCityLists, max_pages \in CallPages :
         scrape_multiple_cities(cities, max_pages)

\* scrape_city: the pass of the loop over search_urls for one search page:
\* extract_property_links, extend all_property_links, sleep(2..4); after the
\* last page unique_links = list(set(all_property_links))
SearchPage ==
    /\ cPc = "search"
    /\ cSearchIdx <= Len(cSearchUrls)
    /\ \E fetch \in SearchFetches :
         cAllLinks' = cAllLinks \cup extract_property_links(fetch)
    /\ cLog' = cLog \o CoreRequestEvents(cSearchUrls[cSearchIdx])
                    \o <<CEv("page_wait", <<>>)>>
    /\ cSearchIdx' = cSearchIdx + 1
    /\ IF cSearchIdx = Len(cSearchUrls)
       THEN cPc' = "properties" /\ cTodo' = cAllLinks'
       ELSE cPc' = "search" /\ cTodo' = cTodo
    /\ UNCHANGED <<cCities, cValid, cI, cMaxPages, cSearchUrls, cCityProps,
                   all_properties_data, cReturn, cOutcomes, cFetched, cCalls>>
    /\ UNCHANGED <<json_data, urlVars, discVars, mainVars, dataVars>>

\* a faulty variant of RestOfLinks: the loop does not move on
RestOfLinksSame(todo, url) == todo

\* for property_url in unique_links: the links the loop has yet to visit
\* once it has visited url
RestOfLinks(todo, url) == todo \ {url}

\* scrape_city: the pass of the loop over unique_links for one link (a set's
\* order is any order): extract_property_data; if property_data: append it
PropertyPage ==
    /\ cPc = "properties"
    /\ \E url \in cTodo, fetch \in PropertyFetches :
         /\ cCityProps' =
                cCityProps \o extract_property_data(url, cValid[cI], fetch)
         /\ cFetched' = Append(cFetched, [url |-> url, code |-> fetch.code,
                                          raised |-> fetch.raised])
         /\ cTodo' = RestOfLinks(cTodo, url)
         /\ cLog' = cLog \o CoreRequestEvents(url)
    /\ UNCHANGED <<cPc, cCities, cValid, cI, cMaxPages, cSearchUrls, cSearchIdx,
                   cAllLinks, all_properties_data, cReturn, cOutcomes, cCalls>>
    /\ UNCHANGED <<json_data, urlVars, discVars, mainVars, dataVars>>

\* what is kept of the city that is left: whether scrape_city raised, the
\* records it returned and, when it returned, the unique links it had found
\* and how many of its property pages gave no record
CityOutcome(raised, returned) ==
    [ city |-> cValid[cI], raised |-> raised, returned |-> returned,
      links |-> IF raised THEN {} ELSE cAllLinks,
      failed |-> IF raised THEN 0
                 ELSE Cardinality({ n \in 1..Len(cFetched) :
                          cFetched[n].raised # "" \/ cFetched[n].code # 200 }) ]

\* the loop over valid_cities goes on after city i: the next city is entered,
\* or the loop is left and the accumulator returned
NextCity(data, log) ==
    IF cI < Len(cValid)
    THEN EnterCity(cI + 1, cValid, cMaxPages, log)
    ELSE LeaveLoop(data, log)

\* a faulty variant of extend: the list is replaced by the items
extend_replacing(list, items) == items

\* list.extend(items)
extend(list, items) == list \o items

\* scrape_city returns city_properties: all_properties_data.extend(...), and
\* if i < len(valid_cities) - 1: time.sleep(delay between cities)
CityReturns ==
    /\ cPc = "properties"
    /\ cTodo = {}
    /\ all_properties_data' = extend(all_properties_data, cCityProps)
    /\ cOutcomes' = Append(cOutcomes, CityOutcome(FALSE, cCityProps))
    /\ NextCity(all_properties_data',
                cLog \o <<CEv("extend", <<cValid[cI]>>)>>
                     \o (IF cI < Len(cValid) THEN <<CEv("wait_cities", <<>>)>>
                         ELSE <<>>))
    /\ UNCHANGED <<cCities, cValid, cMaxPages, cCalls>>
    /\ UNCHANGED <<json_data, urlVars, discVars, mainVars, dataVars>>

\* a faulty variant of OnCityException: the exception ends the loop
OnCityExceptionAbort(log) == LeaveLoop(all_properties_data, log)

\* except Exception as e: self.logger.error(...); continue
OnCityException(log) == NextCity(all_properties_data, log)

\* an Exception leaves scrape_city (city_properties is lost with its frame)
CityRaises ==
    /\ cPc \in {"search", "properties"}
    /\ cOutcomes' = Append(cOutcomes, CityOutcome(TRUE, <<>>))
    /\ OnCityException(Append(cLog, CEv("except", <<cValid[cI]>>)))
    /\ UNCHANGED all_properties_data
    /\ UNCHANGED <<cCities, cValid, cMaxPages, cCalls>>
    /\ UNCHANGED <<json_data, urlVars, discVars, mainVars, dataVars>>

\* KeyboardInterrupt while a city is scraped: no except Exception catches it,
\* it leaves scrape_city and scrape_multiple_cities and reaches main()
Interrupt ==
    /\ cPc \in {"search", "properties"}
    /\ cPc' = "interrupted"
    /\ cLog' = Append(cLog, CEv("KeyboardInterrupt", <<>>))
    /\ UNCHANGED <<cCities, cValid, cI, cMaxPages, cSearchUrls, cSearchIdx,
                   cAllLinks, cTodo, cCityProps, all_properties_data, cReturn,
                   cOutcomes, cFetched, cCalls>>
    /\ UNCHANGED <<json_data, urlVars, discVars, mainVars, dataVars>>

\* scraper.save_to_json() after scrape_multiple_cities has returned: a file
\* is written if self.all_properties_data is not empty
SaveToJson ==
    /\ cPc = "returned"
    /\ json_data = NoJson
    /\ all_properties_data # <<>>
    /\ json_data' = JsonData(all_properties_data,
                             city_names(all_properties_data))
    /\ UNCHANGED <<cPc, cCities, cValid, cI, cMaxPages, cSearchUrls, cSearchIdx,
                   cAllLinks, cTodo, cCityProps, all_properties_data, cReturn,
                   cLog, cOutcomes, cFetched, cCalls>>
    /\ UNCHANGED <<urlVars, discVars, mainVars, dataVars>>

\* DataExporter.save_json(properties_data) on the list the call returned
SaveJson ==
    /\ cPc = "returned"
    /\ json_data = NoJson
    /\ cReturn # <<>>
    /\ json_data' = JsonData(cReturn, city_names(cReturn))
    /\ UNCHANGED <<cPc, cCities, cValid, cI, cMaxPages, cSearchUrls, cSearchIdx,
                   cAllLinks, cTodo, cCityProps, all_properties_data, cReturn,
                   cLog, cOutcomes, cFetched, cCalls>>
    /\ UNCHANGED <<urlVars, discVars, mainVars, dataVars>>

NextCore ==
    \/ ScrapeMultipleCities
    \/ SearchPage
    \/ PropertyPage
    \/ CityReturns
    \/ CityRaises
    \/ Interrupt

\* a run that no exception leaves, and the export of what it gathered
NextExport ==
    \/ ScrapeMultipleCities
    \/ SearchPage
    \/ PropertyPage
    \/ CityReturns
    \/ SaveToJson
    \/ SaveJson

\* a run that no interrupt ends
NextRun ==
    \/ ScrapeMultipleCities
    \/ SearchPage
    \/ PropertyPage
    \/ CityReturns
    \/ CityRaises

\* a sequence of calls of scrape_multiple_cities on one scraper
NextCalls ==
    \/ CallScrapeMultipleCities
    \/ SearchPage
    \/ PropertyPage
    \/ CityReturns
    \/ CityRaises

-----------------------------------------------------------------------------
(* Text of a property page, character by character *)

Digits == {"0", "1", "2", "3", "4", "5", "6", "7", "8", "9"}

IsDigit(c) == c \in Digits

\* \s of the patterns
IsSpace(c) == c \in {" ", "\n"}

\* the letters of the drawn texts that re.IGNORECASE folds
Lower(c) ==
    IF c = "P" THEN "p" ELSE IF c = "E" THEN "e" ELSE IF c = "R" THEN "r"
    ELSE IF c = "A" THEN "a" ELSE IF c = "S" THEN "s" ELSE c

DigitValue(c) == CHOOSE n \in 0..9 : DigitChar[n + 1] = c

\* int() of a string of digits (0 for the empty string)
RECURSIVE ParseInt(_)
ParseInt(digs) ==
    IF digs = <<>> THEN 0
    ELSE 10 * ParseInt(SubSeq(digs, 1, Len(digs) - 1))
            + DigitValue(digs[Len(digs)])

\* the number of spaces of the text from position i on
RECURSIVE SpaceRun(_, _)
SpaceRun(text, i) ==
    IF i > Len(text) \/ ~IsSpace(text[i]) THEN 0
    ELSE 1 + SpaceRun(text, i + 1)

\* text.strip() and get_text(strip=True) of an element with one text node
Strip(text) ==
    LET inner == { i \in 1..Len(text) : ~IsSpace(text[i]) }
    IN  IF inner = {} THEN <<>>
        ELSE SubSeq(text, CHOOSE i \in inner : \A j \in inner : i <= j,
                          CHOOSE i \in inner : \A j \in inner : i >= j)

\* the literal lit stands at position i of the text
LiteralAt(text, i, lit, ignorecase) ==
    /\ i + Len(lit) - 1 <= Len(text)
    /\ \A j \in 1..Len(lit) :
          IF ignorecase THEN Lower(text[i + j - 1]) = Lower(lit[j])
          ELSE text[i + j - 1] = lit[j]

-----------------------------------------------------------------------------
(* The price patterns *)

\* A price pattern: lead \s* ( \d{1,3} (?: sep \d{3})* (?: ,\d{2})? ) when a
\* literal leads, ( ... ) \s* trail opt? when a literal trails; the decimals
\* are part of the group only where the pattern has them.
PricePattern(lead, sep, decimals, trail, opt) ==
    [lead |-> lead, sep |-> sep, decimals |-> decimals, trail |-> trail,
     opt |-> opt]

\* price_patterns of HabitacliaMultiCityScraper._extract_price
price_patterns ==
    << PricePattern(<<>>, ".", TRUE, <<"€">>, <<>>),
       PricePattern(<<"€">>, ".", TRUE, <<>>, <<>>),
       PricePattern(<<>>, ".", FALSE, <<"e", "u", "r", "o">>, <<"s">>),
       PricePattern(<<"P", "r", "i", "c", "e", ":">>, ".", TRUE, <<>>, <<>>) >>

\* price_patterns of HabitacliaScraperImproved._extract_price
improved_price_patterns ==
    << PricePattern(<<>>, ".", TRUE, <<"€">>, <<>>),
       PricePattern(<<"€">>, ".", TRUE, <<>>, <<>>),
       PricePattern(<<>>, ",", FALSE, <<"e", "u", "r", "o">>, <<"s">>) >>

\* d leading digits, k groups of a separator and three digits and, when
\* c = 1, a comma and two digits stand at position i
Shape(text, i, pat, sh) ==
    /\ i + sh.d - 1 <= Len(text)
    /\ \A j \in i..(i + sh.d - 1) : IsDigit(text[j])
    /\ \A g \in 0..(sh.k - 1) :
          LET b == i + sh.d + 4 * g
          IN  /\ b + 3 <= Len(text)
              /\ text[b] = pat.sep
              /\ \A j \in (b + 1)..(b + 3) : IsDigit(text[j])
    /\ sh.c = 1 =>
          LET b == i + sh.d + 4 * sh.k
          IN  /\ b + 2 <= Len(text)
              /\ text[b] = ","
              /\ IsDigit(text[b + 1]) /\ IsDigit(text[b + 2])

ShapeEnd(i, sh) == i + sh.d + 4 * sh.k + 3 * sh.c - 1

\* where the match ends when the group ends at e; 0 when what trails the
\* group does not match
TrailEnd(text, e, pat, ignorecase) ==
    IF pat.trail = <<>> THEN e
    ELSE LET b == e + 1 + SpaceRun(text, e + 1)
             z == b + Len(pat.trail) - 1
         IN  IF ~LiteralAt(text, b, pat.trail, ignorecase) THEN 0
             ELSE IF pat.opt # <<>>
                      /\ LiteralAt(text, z + 1, pat.opt, ignorecase)
                  THEN z + Len(pat.opt)
                  ELSE z

\* the shape the greedy quantifiers settle on: the most leading digits, then
\* the most groups, then the decimals
Preferred(S) ==
    CHOOSE sh \in S : \A o \in S :
        \/ sh.d > o.d
        \/ sh.d = o.d /\ sh.k > o.k
        \/ sh.d = o.d /\ sh.k = o.k /\ sh.c >= o.c

NoMatch == [ok |-> FALSE, group |-> <<>>, end |-> 0]

\* the match of a pattern that starts at position i
MatchAt(pat, text, i, ignorecase) ==
    IF ~LiteralAt(text, i, pat.lead, ignorecase) THEN NoMatch
    ELSE LET a  == i + Len(pat.lead)
             n0 == IF pat.lead = <<>> THEN i ELSE a + SpaceRun(text, a)
             S  == { sh \in [d : 1..3, k : 0..(Len(text) \div 4),
                             c : IF pat.decimals THEN {0, 1} ELSE {0}] :
                       /\ Shape(text, n0, pat, sh)
                       /\ TrailEnd(text, ShapeEnd(n0, sh), pat, ignorecase) # 0 }
         IN  IF S = {} THEN NoMatch
             ELSE LET sh == Preferred(S)
                  IN  [ok |-> TRUE,
                       group |-> SubSeq(text, n0, ShapeEnd(n0, sh)),
                       end |-> TrailEnd(text, ShapeEnd(n0, sh), pat, ignorecase)]

\* re.findall(pattern, text): the groups of the matches, left to right, each
\* search starting where the match before it ended
RECURSIVE FindAll(_, _, _, _)
FindAll(pat, text, i, ignorecase) ==
    IF i > Len(text) THEN <<>>
    ELSE LET m == MatchAt(pat, text, i, ignorecase)
         IN  IF m.ok THEN <<m.group>> \o FindAll(pat, text, m.end + 1, ignorecase)
             ELSE FindAll(pat, text, i + 1, ignorecase)

-----------------------------------------------------------------------------
(* Conversion of the matched text *)

\* match.replace('.', '').replace(',', '.')
CleanPrice(match) ==
    LET kept == SelectSeq(match, LAMBDA c : c # ".")
    IN  [i \in 1..Len(kept) |-> IF kept[i] = "," THEN "." ELSE kept[i]]

\* float(s) succeeds: digits with at most one point
IsFloat(s) ==
    /\ \E i \in 1..Len(s) : IsDigit(s[i])
    /\ \A i \in 1..Len(s) : IsDigit(s[i]) \/ s[i] = "."
    /\ Cardinality({ i \in 1..Len(s) : s[i] = "." }) <= 1

\* float(s) as the whole part and the digits after the point
ParseFloat(s) ==
    LET dots == { i \in 1..Len(s) : s[i] = "." }
        dot  == IF dots = {} THEN Len(s) + 1 ELSE CHOOSE i \in dots : TRUE
    IN  [units |-> ParseInt(SubSeq(s, 1, dot - 1)),
         frac  |-> SubSeq(s, dot + 1, Len(s))]

\* lo <= price <= hi for whole numbers lo and hi
InPriceRange(price, lo, hi) ==
    /\ price.units >= lo
    /\ \/ price.units < hi
       \/ price.units = hi /\ \A i \in 1..Len(price.frac) : price.frac[i] = "0"

\* data of _extract_price: the keys price and price_raw, each set or not
NoPrice == [has_price |-> FALSE, price |-> [units |-> 0, frac |-> <<>>],
            has_raw |-> FALSE, price_raw |-> <<>>]

\* the first match, patterns in order and matches in text order, that
\* converts to a price in the range; price_raw = f"{match}€"
FirstPriceInRange(matches, lo, hi, data) ==
    LET good == { i \in 1..Len(matches) :
                    /\ IsFloat(CleanPrice(matches[i]))
                    /\ InPriceRange(ParseFloat(CleanPrice(matches[i])), lo, hi) }
    IN  IF good = {} THEN data
        ELSE LET i == CHOOSE g \in good : \A o \in good : g <= o
             IN  [has_price |-> TRUE,
                  price |-> ParseFloat(CleanPrice(matches[i])),
                  has_raw |-> TRUE,
                  price_raw |-> matches[i] \o <<"€">>]

RECURSIVE AllMatches(_, _, _, _)
AllMatches(pats, k, text, ignorecase) ==
    IF k > Len(pats) THEN <<>>
    ELSE FindAll(pats[k], text, 1, ignorecase)
            \o AllMatches(pats, k + 1, text, ignorecase)

\* HabitacliaMultiCityScraper._extract_price on the text of the page
core_extract_price(text) ==
    FirstPriceInRange(AllMatches(price_patterns, 1, text, TRUE),
                      50, 50000000, NoPrice)

-----------------------------------------------------------------------------
(* HabitacliaScraperImproved._extract_price *)

\* re.search(r'([\d,.]+)', s): the first run of digits, commas and points
FirstNumberRun(s) ==
    LET IsNum(c) == IsDigit(c) \/ c = "," \/ c = "."
        starts == { i \in 1..Len(s) : IsNum(s[i]) }
    IN  IF starts = {} THEN <<>>
        ELSE LET a == CHOOSE i \in starts : \A j \in starts : i <= j
                 b == CHOOSE i \in a..Len(s) :
                        /\ \A j \in a..i : IsNum(s[j])
                        /\ i = Len(s) \/ ~IsNum(s[i + 1])
             IN  SubSeq(s, a, b)

\* the loop over the elements the price selectors give: an element with a
\* euro sign sets price_raw; the first one whose number converts sets price
\* and ends the search
RECURSIVE ImprovedSelectorPrice(_, _, _)
ImprovedSelectorPrice(elements, i, data) ==
    IF i > Len(elements) THEN data
    ELSE LET price_text == Strip(elements[i])
             run == FirstNumberRun(CleanPrice(price_text))
         IN  IF ~(\E j \in 1..Len(price_text) : price_text[j] = "€")
             THEN ImprovedSelectorPrice(elements, i + 1, data)
             ELSE IF run # <<>> /\ IsFloat(run)
                  THEN [has_price |-> TRUE, price |-> ParseFloat(run),
                        has_raw |-> TRUE, price_raw |-> price_text]
                  ELSE ImprovedSelectorPrice(elements, i + 1,
                          [data EXCEPT !.has_raw = TRUE,
                                       !.price_raw = price_text])

\* HabitacliaScraperImproved._extract_price: the selectors first, the text
\* of the page when they give no price
improved_extract_price(elements, text) ==
    LET data == ImprovedSelectorPrice(elements, 1, NoPrice)
    IN  IF data.has_price THEN data
        ELSE FirstPriceInRange(AllMatches(improved_price_patterns, 1, text, FALSE),
                               50, 10000000, data)

-----------------------------------------------------------------------------
(* Drawn pages *)

\* an element of the page with its text; priced when a price selector
\* ('.price', '[class*="price"]') gives it
Node(text, priced) == [text |-> text, priced |-> priced]

NodeTexts ==
    { <<"1", ".", "2", "3", "4", ",", "5", "6", "€">>,
      <<"5", "0", "€">>,
      <<"4", "9", "€">>,
      <<"5", "0", "0", "0", "0", "0", "0", "1", "€">>,
      <<"5", "0", "0", "0", "0", "1", "2", "3", "€">>,
      <<"1", "2", "3", "4", "€">>,
      <<"5", "0", ".", "0", "0", "0", ".", "0", "0", "0", "€">>,
      <<"5", "0", ".", "0", "0", "0", ".", "0", "0", "1", " ", "€">>,
      <<"5", "€">>,
      <<"€">>,
      <<" ", "9", "0", "0", " ", "E", "u", "r", "o", "s">>,
      <<"P", "r", "i", "c", "e", ":", " ", "7", "5", "0">>,
      <<"€", " ", "1", ".", "2", "0", "0">>,
      <<"1", ",", "2", ",", "3", "€">> }

PricePages ==
    UNION { [1..n -> { Node(t, p) : t \in NodeTexts, p \in BOOLEAN }] :
              n \in 1..MaxNodes }

\* soup.get_text(): the texts of the elements, in document order
RECURSIVE get_text(_)
get_text(page) ==
    IF page = <<>> THEN <<>>
    ELSE page[1].text \o get_text(Tail(page))

\* the elements soup.select gives for the price selectors, document order
PriceElements(page) ==
    LET hit == SelectSeq(page, LAMBDA n : n.priced)
    IN  [i \in 1..Len(hit) |-> hit[i].text]

NotExtracted == [has_price |-> FALSE, price |-> [units |-> 0, frac |-> <<"-">>],
                 has_raw |-> FALSE, price_raw |-> <<>>]

IdlePrice ==
    pPage = <<>> /\ pCore = NotExtracted /\ pImproved = NotExtracted

InitPrice ==
    pPage \in PricePages /\ pCore = NotExtracted /\ pImproved = NotExtracted

ExtractPriceCore ==
    /\ pPage # <<>>
    /\ pCore = NotExtracted
    /\ pCore' = core_extract_price(get_text(pPage))
    /\ UNCHANGED <<pPage, pImproved>>
    /\ UNCHANGED <<specVars, descVars, imageVars, validVars, cleanVars>>
    /\ UNCHANGED <<urlVars, discVars, mainVars, coreVars, moreVars>>

ExtractPriceImproved ==
    /\ pPage # <<>>
    /\ pImproved = NotExtracted
    /\ pImproved' = improved_extract_price(PriceElements(pPage), get_text(pPage))
    /\ UNCHANGED <<pPage, pCore>>
    /\ UNCHANGED <<specVars, descVars, imageVars, validVars, cleanVars>>
    /\ UNCHANGED <<urlVars, discVars, mainVars, coreVars, moreVars>>

-----------------------------------------------------------------------------
(* HabitacliaMultiCityScraper._extract_specifications *)

\* A pattern of the specifications: lead \s* (\d+) \s* trail, where lead and
\* trail are alternatives (absent when the set is empty) and each
\* alternative is a list of literals with \s* between them.  Optional last
\* letters of an alternative (rooms?, meters?) are left out: they do not
\* change whether the pattern matches nor its group.
SpecPattern(lead, trail) == [lead |-> lead, trail |-> trail]

\* room_patterns of HabitacliaMultiCityScraper._extract_specifications
room_patterns ==
    << SpecPattern({},
        { <<<<"r", "o", "o", "m">>>>,
          <<<<"h", "a", "b", "i", "t", "a", "c", "i", "o", "n", "e">>>>,
          <<<<"h", "a", "b">>>>,
          <<<<"d", "o", "r", "m", "i", "t", "o", "r", "i", "o">>>>,
          <<<<"b", "e", "d", "r", "o", "o", "m">>>> }),
       SpecPattern({},
        { <<<<"b", "e", "d">>>> }),
       SpecPattern({ <<<<"r", "o", "o", "m", "s", ":">>>> },
        {}),
       SpecPattern({},
        { <<<<"r", "m">>>>,
          <<<<"r", "o", "o", "m">>>> }) >>

\* bath_patterns
bath_patterns ==
    << SpecPattern({},
        { <<<<"b", "a", "t", "h">>>>,
          <<<<"b", "a", "t", "h", "r", "o", "o", "m">>>>,
          <<<<"b", "a", "ñ", "o">>>>,
          <<<<"a", "s", "e", "o">>>> }),
       SpecPattern({},
        { <<<<"w", "c">>>>,
          <<<<"t", "o", "i", "l", "e", "t">>>> }),
       SpecPattern({ <<<<"b", "a", "t", "h", "r", "o", "o", "m", ":">>>>,
          <<<<"b", "a", "t", "h", "r", "o", "o", "m", "s", ":">>>> },
        {}) >>

\* area_patterns
area_patterns ==
    << SpecPattern({},
        { <<<<"m", "²">>>>,
          <<<<"m", "2">>>> }),
       SpecPattern({},
        { <<<<"s", "q", "u", "a", "r", "e">>, <<"m", "e", "t", "e", "r">>>>,
          <<<<"m", "e", "t", "r", "o">>, <<"c", "u", "a", "d", "r", "a", "d", "o">>>>,
          <<<<"m", "e", "t", "r", "o", "s">>, <<"c", "u", "a", "d", "r", "a", "d", "o">>>> }),
       SpecPattern({},
        { <<<<"s", "q", "m">>>> }),
       SpecPattern({ <<<<"a", "r", "e", "a", ":">>>> },
        {}),
       SpecPattern({ <<<<"s", "i", "z", "e", ":">>>> },
        { <<<<"m">>>> }) >>

\* the number of digits of the text from position i on
RECURSIVE DigitRun(_, _)
DigitRun(text, i) ==
    IF i > Len(text) \/ ~IsDigit(text[i]) THEN 0
    ELSE 1 + DigitRun(text, i + 1)

\* where an alternative (literals with \s* between them) ends when it starts
\* at position i; 0 when it does not stand there.  re.IGNORECASE is set.
RECURSIVE PartsEnd(_, _, _)
PartsEnd(text, i, parts) ==
    IF parts = <<>> THEN i - 1
    ELSE IF ~LiteralAt(text, i, parts[1], TRUE) THEN 0
    ELSE IF Len(parts) = 1 THEN i + Len(parts[1]) - 1
    ELSE LET b == i + Len(parts[1])
         IN  PartsEnd(text, b + SpaceRun(text, b), Tail(parts))

\* the positions where some alternative of a set ends when it starts at i
AltEnds(text, i, alts) ==
    { PartsEnd(text, i, a) : a \in alts } \ {0}

NoSpecMatch == [ok |-> FALSE, value |-> 0, groupEnd |-> 0]

\* the match of a pattern that starts at position i; its group is the
\* run of digits, which \d+ takes whole
SpecMatchAt(pat, text, i) ==
    IF pat.lead = {}
    THEN LET r == DigitRun(text, i)
             t == i + r + SpaceRun(text, i + r)
         IN  IF r > 0 /\ AltEnds(text, t, pat.trail) # {}
             THEN [ok |-> TRUE, value |-> ParseInt(SubSeq(text, i, i + r - 1)),
                   groupEnd |-> i + r - 1]
             ELSE NoSpecMatch
    ELSE IF AltEnds(text, i, pat.lead) = {} THEN NoSpecMatch
    ELSE LET ends == AltEnds(text, i, pat.lead)
             e == CHOOSE x \in ends : \A y \in ends : x <= y
             n == e + 1 + SpaceRun(text, e + 1)
             r == DigitRun(text, n)
             t == n + r + SpaceRun(text, n + r)
         IN  IF r > 0 /\ (pat.trail = {} \/ AltEnds(text, t, pat.trail) # {})
             THEN [ok |-> TRUE, value |-> ParseInt(SubSeq(text, n, n + r - 1)),
                   groupEnd |-> n + r - 1]
             ELSE NoSpecMatch

\* re.search(pattern, text, re.IGNORECASE): the leftmost match
Search(pat, text) ==
    LET at == { i \in 1..Len(text) : SpecMatchAt(pat, text, i).ok }
    IN  IF at = {} THEN NoSpecMatch
        ELSE SpecMatchAt(pat, text, CHOOSE i \in at : \A j \in at : i <= j)

\* for pattern in patterns: match = re.search(...); if match and
\* lo <= int(match.group(1)) <= hi: set the field; break.  0: field not set
RECURSIVE FirstSearchInRange(_, _, _, _, _)
FirstSearchInRange(pats, k, text, lo, hi) ==
    IF k > Len(pats) THEN 0
    ELSE LET m == Search(pats[k], text)
         IN  IF m.ok /\ lo <= m.value /\ m.value <= hi THEN m.value
             ELSE FirstSearchInRange(pats, k + 1, text, lo, hi)

\* data of _extract_specifications; a field that is 0 is not set
extract_specifications(text) ==
    [ rooms     |-> FirstSearchInRange(room_patterns, 1, text, 1, 20),
      bathrooms |-> FirstSearchInRange(bath_patterns, 1, text, 1, 10),
      area_m2   |-> FirstSearchInRange(area_patterns, 1, text, 20, 2000) ]

\* the pieces of text the drawn pages are made of
SpecPieces ==
    { <<"0", " ", "r", "o", "o", "m", "s", " ">>,
      <<"3", " ", "r", "o", "o", "m", "s", " ">>,
      <<"2", "5", " ", "r", "o", "o", "m", "s", " ">>,
      <<"2", " ", "b", "e", "d", " ">>,
      <<"R", "o", "o", "m", "s", ":", " ", "4", " ">>,
      <<"1", " ", "b", "a", "t", "h", " ">>,
      <<"1", "1", " ", "b", "a", "t", "h", "s", " ">>,
      <<"2", " ", "w", "c", " ">>,
      <<"1", "5", " ", "m", "2", " ">>,
      <<"8", "0", " ", "m", "²", " ">>,
      <<"5", " ", "m", "2", " ">>,
      <<"3", "0", "0", "0", " ", "s", "q", "m", " ">>,
      <<"A", "r", "e", "a", ":", " ", "1", "2", "0", " ">> }

RECURSIVE Concat(_)
Concat(pieces) ==
    IF pieces = <<>> THEN <<>> ELSE pieces[1] \o Concat(Tail(pieces))

SpecTexts ==
    { Concat(p) : p \in UNION { [1..n -> SpecPieces] : n \in 1..MaxNodes } }

SpecsNotRun == [rooms |-> -1, bathrooms |-> -1, area_m2 |-> -1]

IdleSpecs == sText = <<>> /\ sCore = SpecsNotRun

InitSpecs == sText \in SpecTexts /\ sCore = SpecsNotRun

ExtractSpecifications ==
    /\ sText # <<>>
    /\ sCore = SpecsNotRun
    /\ sCore' = extract_specifications(sText)
    /\ UNCHANGED sText
    /\ UNCHANGED <<priceVars, descVars, imageVars, validVars, cleanVars>>
    /\ UNCHANGED <<urlVars, discVars, mainVars, coreVars, moreVars>>

-----------------------------------------------------------------------------
(* HabitacliaMultiCityScraper._extract_description *)

\* The text of a description element is kept as runs of equal characters:
\* n letters ("x"), n white-space characters (" ") or n points (".").
Run(c, n) == [c |-> c, n |-> n]

\* len(text)
RECURSIVE RunsLen(_)
RunsLen(text) ==
    IF text = <<>> THEN 0 ELSE text[1].n + RunsLen(Tail(text))

\* get_text(strip=True) of an element with one text node
RunsStrip(text) ==
    LET inner == { i \in 1..Len(text) : text[i].c # " " }
    IN  IF inner = {} THEN <<>>
        ELSE SubSeq(text, CHOOSE i \in inner : \A j \in inner : i <= j,
                          CHOOSE i \in inner : \A j \in inner : i >= j)

\* re.sub(r'\s+', ' ', desc)
RunsNormalize(text) ==
    [i \in 1..Len(text) |->
        IF text[i].c = " " THEN Run(" ", 1) ELSE text[i]]

\* text[:limit]
RECURSIVE RunsTake(_, _)
RunsTake(text, limit) ==
    IF text = <<>> \/ limit <= 0 THEN <<>>
    ELSE IF text[1].n >= limit THEN <<Run(text[1].c, limit)>>
    ELSE <<text[1]>> \o RunsTake(Tail(text), limit - text[1].n)

\* data of _extract_description; cut tells that clean_desc was longer than
\* the slice kept of it
NoDescription == [has |-> FALSE, description |-> <<>>, cut |-> FALSE, from |-> 0]

\* for selector in desc_selectors: the first element whose stripped text is
\* longer than 50 gives the description: normalized, then clean_desc[:500]
RECURSIVE extract_description(_, _)
extract_description(elements, i) ==
    IF i > Len(elements) THEN NoDescription
    ELSE LET desc == RunsStrip(elements[i])
             clean_desc == RunsNormalize(desc)
         IN  IF desc # <<>> /\ RunsLen(desc) > 50
             THEN [has |-> TRUE,
                   description |-> RunsTake(clean_desc, 500),
                   cut |-> RunsLen(clean_desc) > 500,
                   from |-> i]
             ELSE extract_description(elements, i + 1)

\* the texts of the drawn description elements
DescriptionTexts ==
    { <<Run("x", 60)>>,
      <<Run("x", 50)>>,
      <<Run("x", 10)>>,
      <<Run("x", 500)>>,
      <<Run("x", 501)>>,
      <<Run("x", 30), Run(" ", 3), Run("x", 30)>>,
      <<Run(" ", 2), Run("x", 300), Run(" ", 5), Run("x", 300)>>,
      <<Run("x", 499), Run(" ", 2), Run("x", 10)>>,
      <<Run("x", 497), Run(".", 3), Run("x", 10)>>,
      <<Run(" ", 1), Run("x", 51), Run(" ", 1)>> }

\* the elements select_one gives for the selectors of desc_selectors that
\* match, in the order of the selectors
DescriptionPages ==
    UNION { [1..n -> DescriptionTexts] : n \in 1..MaxNodes }

DescriptionNotRun ==
    [has |-> FALSE, description |-> <<>>, cut |-> FALSE, from |-> -1]

IdleDescription == eText = <<>> /\ eCore = DescriptionNotRun

InitDescription == eText \in DescriptionPages /\ eCore = DescriptionNotRun

ExtractDescription ==
    /\ eText # <<>>
    /\ eCore = DescriptionNotRun
    /\ eCore' = extract_description(eText, 1)
    /\ UNCHANGED eText
    /\ UNCHANGED <<priceVars, specVars, imageVars, validVars, cleanVars>>
    /\ UNCHANGED <<urlVars, discVars, mainVars, coreVars, moreVars>>

-----------------------------------------------------------------------------
(* _extract_images of both variants *)

\* an img element: its src, data-src and data-lazy attributes (<<>> when
\* missing or empty) and the classes of the elements it lies in
Img(src, data_src, data_lazy, ctx) ==
    [src |-> src, data_src |-> data_src, data_lazy |-> data_lazy, ctx |-> ctx]

HabimgUrl(name) == <<"http", "s://images.", "habimg.com", "/", name, ".jpg">>

ImagePool ==
    << Img(HabimgUrl("a"), <<>>, <<>>, {}),
       Img(HabimgUrl("a"), <<>>, <<>>, {"gallery"}),
       Img(<<"/", "img", "/", "b", ".jpg">>, <<>>, <<>>, {"gallery"}),
       Img(<<>>, <<"/", "img", "/", "c", ".jpg">>, <<>>, {"property-images"}),
       Img(<<>>, <<>>, HabimgUrl("d"), {"gallery"}),
       Img(<<"img", "/", "e", ".jpg">>, <<>>, <<>>, {"gallery"}),
       Img(<<"/", "img", "/", "f", ".jpg">>, <<>>, <<>>, {"photos"}),
       Img(<<"/", "img", "/", "g", ".jpg">>, <<>>, <<>>, {"property-photos"}),
       Img(<<>>, <<>>, <<>>, {"gallery"}) >>

\* the pages drawn: the images of any part of the pool, in its order
ImagePages ==
    { LET idx == SelectSeq([i \in 1..Len(ImagePool) |-> i], LAMBDA i : i \in S)
      IN  [n \in 1..Len(idx) |-> ImagePool[idx[n]]] :
      S \in SUBSET (1..Len(ImagePool)) }

\* img[src*="needle"]
SrcSelector(needle) == [kind |-> "src", needle |-> needle, cls |-> ""]
\* ".cls img"
ClassSelector(cls) == [kind |-> "ctx", needle |-> <<>>, cls |-> cls]

\* image_selectors of HabitacliaMultiCityScraper._extract_images; no drawn
\* image lies in a [data-test="property-image"] element
image_selectors ==
    << SrcSelector(<<"habimg.com">>),
       ClassSelector("gallery"),
       ClassSelector("property-images"),
       ClassSelector("property-photos"),
       ClassSelector("data-test=property-image") >>

\* img_selectors of HabitacliaScraperImproved._extract_images
img_selectors ==
    << SrcSelector(<<"habimg.com">>),
       ClassSelector("gallery"),
       ClassSelector("property-images"),
       ClassSelector("listing-images"),
       ClassSelector("photos") >>

\* soup.select(selector) on the images, document order
SelectImages(page, selector) ==
    SelectSeq(page, LAMBDA img :
        IF selector.kind = "src"
        THEN img.src # <<>> /\ Contains(img.src, selector.needle)
        ELSE selector.cls \in img.ctx)

\* img.get('src') or img.get('data-src') or img.get('data-lazy')
ImageSrc(img) ==
    IF img.src # <<>> THEN img.src
    ELSE IF img.data_src # <<>> THEN img.data_src
    ELSE img.data_lazy

\* if src: if not src.startswith('http'): src = urljoin(base_url, src);
\* img_urls.append(src)
RECURSIVE AppendSources(_)
AppendSources(images) ==
    IF images = <<>> THEN <<>>
    ELSE LET src == ImageSrc(images[1])
         IN  (IF src = <<>> THEN <<>>
              ELSE IF StartsWith(src, <<"http">>) THEN <<src>>
              ELSE <<Urljoin(base_url, src)>>)
             \o AppendSources(Tail(images))

\* img_urls after the loop over all selectors
RECURSIVE img_urls(_, _, _)
img_urls(page, sels, k) ==
    IF k > Len(sels) THEN <<>>
    ELSE AppendSources(SelectImages(page, sels[k])) \o img_urls(page, sels, k + 1)

\* self.config.get('max_images', 5); the entry is <<>> when the key is absent
ConfiguredMaxImages(entry) == IF entry = <<>> THEN 5 ELSE entry[1]

\* the max_images entries drawn
MaxImagesEntries == { <<>>, <<2>>, <<0>> }

\* a faulty variant of limited_lists: the list is not cut
unlimited_lists(urls, max_images) ==
    LET s == { urls[i] : i \in 1..Len(urls) }
    IN  { q \in [1..Cardinality(s) -> s] :
            \A i, j \in 1..Cardinality(s) : q[i] = q[j] => i = j }

\* list(set(img_urls))[:max_images]: the order of a set of strings is not
\* fixed, so the value is any list of distinct URLs of the set that has
\* min(len(set), max_images) entries
limited_lists(urls, max_images) ==
    LET s == { urls[i] : i \in 1..Len(urls) }
        m == IF Cardinality(s) < max_images THEN Cardinality(s) ELSE max_images
    IN  { q \in [1..m -> s] : \A i, j \in 1..m : q[i] = q[j] => i = j }

\* data of _extract_images
ImageData(unique_urls) ==
    [image_urls |-> unique_urls, image_count |-> Len(unique_urls)]

ImagesNotRun == [image_urls |-> <<>>, image_count |-> -1]

IdleImages ==
    iPage = <<>> /\ iMaxImages = <<>> /\ iCore = ImagesNotRun
    /\ iImproved = ImagesNotRun

InitImages ==
    /\ iPage \in ImagePages
    /\ iMaxImages \in MaxImagesEntries
    /\ iCore = ImagesNotRun
    /\ iImproved = ImagesNotRun

\* HabitacliaMultiCityScraper._extract_images; a page is handed to the
\* extractor of one variant
ExtractImagesCore ==
    /\ iCore = ImagesNotRun
    /\ iImproved = ImagesNotRun
    /\ \E unique_urls \in limited_lists(img_urls(iPage, image_selectors, 1),
                                        ConfiguredMaxImages(iMaxImages)) :
          iCore' = ImageData(unique_urls)
    /\ UNCHANGED <<iPage, iMaxImages, iImproved>>
    /\ UNCHANGED <<priceVars, specVars, descVars, validVars, cleanVars>>
    /\ UNCHANGED <<urlVars, discVars, mainVars, coreVars, moreVars>>

\* HabitacliaScraperImproved._extract_images, which reads no configuration
ExtractImagesImproved ==
    /\ iImproved = ImagesNotRun
    /\ iCore = ImagesNotRun
    /\ iMaxImages = <<>>
    /\ \E limited_img_urls \in limited_lists(img_urls(iPage, img_selectors, 1), 5) :
          iImproved' = ImageData(limited_img_urls)
    /\ UNCHANGED <<iPage, iMaxImages, iCore>>
    /\ UNCHANGED <<priceVars, specVars, descVars, validVars, cleanVars>>
    /\ UNCHANGED <<urlVars, discVars, mainVars, coreVars, moreVars>>

-----------------------------------------------------------------------------
(* PropertyDataValidator.validate_property *)

\* The values of a record: a string (its text and its length), an int, a
\* float, None, the NaN a DataFrame puts where a key is missing, and the
\* marker of a key the dictionary does not have.
Str(s, len) == [t |-> "str", n |-> len, s |-> s]
IntV(n)     == [t |-> "int", n |-> n, s |-> ""]
FloatV(n)   == [t |-> "float", n |-> n, s |-> ""]
NoneV       == [t |-> "None", n |-> 0, s |-> ""]
NaN         == [t |-> "nan", n |-> 0, s |-> ""]
Missing     == [t |-> "missing", n |-> 0, s |-> ""]

Keys ==
    {"url", "title", "location", "city_name", "timestamp", "price", "rooms",
     "bathrooms", "area_m2"}

\* field in property_data
HasKey(rec, field) == rec[field] # Missing

\* bool(value); NaN is a float other than 0.0
Truthy(v) ==
    \/ v.t = "str" /\ v.n > 0
    \/ v.t \in {"int", "float"} /\ v.n # 0
    \/ v.t = "nan"

\* self.required_fields
required_fields == <<"title", "url", "city_name", "timestamp">>

\* self.numeric_fields
numeric_fields == <<"price", "rooms", "bathrooms", "area_m2">>

\* self.validation_rules: min, max and type of the numeric fields (the tags
\* of the values isinstance accepts; a NaN is a float), min_length and
\* max_length of the text fields
validation_rules ==
    [ price     |-> [min |-> 50, max |-> 50000000, type |-> {"int", "float", "nan"}],
      rooms     |-> [min |-> 1, max |-> 20, type |-> {"int"}],
      bathrooms |-> [min |-> 1, max |-> 10, type |-> {"int"}],
      area_m2   |-> [min |-> 10, max |-> 2000, type |-> {"int"}],
      title     |-> [min_length |-> 10, max_length |-> 200],
      location  |-> [min_length |-> 3, max_length |-> 100] ]

\* for field in self.required_fields:
\*     if field not in property_data or not property_data[field]: error
RequiredErrors(rec) ==
    { <<"required", required_fields[i]>> :
        i \in { j \in 1..Len(required_fields) :
                  ~(HasKey(rec, required_fields[j])
                      /\ Truthy(rec[required_fields[j]])) } }

\* the numeric fields: wrong type; below min; above max.  A NaN is a float
\* and compares false with every number.
NumericErrors(rec) ==
    UNION { LET field == numeric_fields[i]
                value == rec[field]
                rules == validation_rules[field]
            IN  IF ~HasKey(rec, field) \/ value.t = "None" THEN {}
                ELSE (IF value.t \in rules.type THEN {} ELSE {<<"type", field>>})
                     \cup (IF value.t \in {"int", "float"} /\ value.n < rules.min
                           THEN {<<"low", field>>} ELSE {})
                     \cup (IF value.t \in {"int", "float"} /\ value.n > rules.max
                           THEN {<<"high", field>>} ELSE {}) :
            i \in 1..Len(numeric_fields) }

\* the text fields: shorter than min_length; longer than max_length
TextErrors(rec) ==
    UNION { LET value == rec[field]
                rules == validation_rules[field]
            IN  IF ~(HasKey(rec, field) /\ Truthy(value)) \/ value.t # "str" THEN {}
                ELSE (IF value.n < rules.min_length THEN {<<"short", field>>} ELSE {})
                     \cup (IF value.n > rules.max_length THEN {<<"long", field>>}
                           ELSE {}) :
            field \in {"title", "location"} }

\* len(value) raises TypeError: a text field holds a truthy value that has
\* no length (a number, a NaN)
LenRaises(rec) ==
    \E field \in {"title", "location"} :
        HasKey(rec, field) /\ Truthy(rec[field]) /\ rec[field].t # "str"

\* validate_property(property_data): (len(errors) == 0, errors), or the
\* TypeError it raises
validate_property(rec) ==
    IF LenRaises(rec)
    THEN [valid |-> FALSE, errors |-> {}, raised |-> TRUE]
    ELSE LET errors == RequiredErrors(rec) \cup NumericErrors(rec)
                         \cup TextErrors(rec)
         IN  [valid |-> errors = {}, errors |-> errors, raised |-> FALSE]

\* the records drawn for validate_property
DrawnRecords ==
    { [k \in Keys |->
         CASE k = "url" -> u
           [] k = "title" -> ti
           [] k = "location" -> lo
           [] k = "city_name" -> ci
           [] k = "timestamp" -> ts
           [] k = "price" -> pr
           [] k = "rooms" -> ro
           [] k = "bathrooms" -> Missing
           [] k = "area_m2" -> ar] :
      u  \in {Missing, Str("u1", 40)},
      ti \in {Missing, Str("", 0), Str("flat", 5), Str("flat", 20), Str("flat", 250)},
      lo \in {Missing, Str("bcn", 2), Str("bcn", 12)},
      ci \in {Missing, Str("Barcelona", 9)},
      ts \in {Missing, Str("2024", 26)},
      pr \in {Missing, FloatV(900), FloatV(10)},
      ro \in {Missing, IntV(3), IntV(25), NoneV},
      ar \in {Missing, IntV(15)} }

ValidationNotRun == [valid |-> FALSE, errors |-> {<<"not", "run">>}, raised |-> FALSE]

NoRecord == [k \in Keys |-> Missing]

IdleValidate == vRecord = NoRecord /\ vResult = ValidationNotRun

InitValidate == vRecord \in DrawnRecords /\ vResult = ValidationNotRun

ValidateProperty ==
    /\ vResult = ValidationNotRun
    /\ vRecord \in DrawnRecords
    /\ vResult' = validate_property(vRecord)
    /\ UNCHANGED vRecord
    /\ UNCHANGED <<priceVars, specVars, descVars, imageVars, cleanVars>>
    /\ UNCHANGED <<urlVars, discVars, mainVars, coreVars, moreVars>>

-----------------------------------------------------------------------------
(* PropertyDataValidator.clean_dataset *)

\* The value a DataFrame built from the list holds for one key of one
\* record, as to_dict('records') gives it back.  A key no record has gives
\* no column.  A column with a string keeps its values and holds NaN where
\* the key is missing.  A column of numbers is int64 when every record has
\* an int, else float64: the ints become floats and None and missing keys
\* become NaN.
Coerced(list, field, value) ==
    LET column  == { list[j][field] : j \in 1..Len(list) }
        present == column \ {Missing}
    IN  IF present = {} THEN Missing
        ELSE IF \E x \in present : x.t = "str"
             THEN IF value = Missing THEN NaN ELSE value
        ELSE IF \A x \in present : x.t = "None"
             THEN IF value = Missing THEN NaN ELSE value
        ELSE IF \A x \in column : x.t = "int" THEN value
        ELSE IF value.t \in {"int", "float"} THEN FloatV(value.n)
        ELSE NaN

\* pd.DataFrame(properties_data), row by row
DataFrame(list) ==
    [i \in 1..Len(list) |-> [k \in Keys |-> Coerced(list, k, list[i][k])]]

\* df.drop_duplicates(subset=['url'], keep='first') when there is a url
\* column: the rows whose url no earlier row has; NaN counts as equal to NaN
drop_duplicates(df) ==
    IF \A i \in 1..Len(df) : df[i]["url"] = Missing
    THEN [i \in 1..Len(df) |-> i]
    ELSE SelectSeq([i \in 1..Len(df) |-> i],
                   LAMBDA i : \A j \in 1..(i - 1) : df[j]["url"] # df[i]["url"])

\* a faulty variant of cleaning_report: invalid_removed is counted from the
\* original list
cleaning_report_from_original(original_count, cleaned, valid) ==
    [ original_count      |-> original_count,
      after_deduplication |-> cleaned,
      after_validation    |-> valid,
      duplicates_removed  |-> original_count - cleaned,
      invalid_removed     |-> original_count - valid ]

\* cleaning_report, from original_count, len(cleaned_data) and
\* len(valid_properties)
cleaning_report(original_count, cleaned, valid) ==
    [ original_count      |-> original_count,
      after_deduplication |-> cleaned,
      after_validation    |-> valid,
      duplicates_removed  |-> original_count - cleaned,
      invalid_removed     |-> cleaned - valid ]

\* a faulty variant of CleanReturn: the deduplicated list is returned
CleanReturnCleaned(df, cleaned, valid, report) ==
    [ raised  |-> FALSE,
      records |-> [n \in 1..Len(cleaned) |-> df[cleaned[n]]],
      kept    |-> cleaned,
      report  |-> report ]

\* return valid_properties, cleaning_report; kept holds the places the
\* returned records had in the list passed in
CleanReturn(df, cleaned, valid, report) ==
    [ raised  |-> FALSE,
      records |-> [n \in 1..Len(valid) |-> df[valid[n]]],
      kept    |-> valid,
      report  |-> report ]

CleanRaised ==
    [ raised |-> TRUE, records |-> <<>>, kept |-> <<>>,
      report |-> cleaning_report(0, 0, 0) ]

\* clean_dataset(properties_data); the TypeError of validate_property is not
\* caught
clean_dataset(list) ==
    LET df      == DataFrame(list)
        cleaned == drop_duplicates(df)
        valid   == SelectSeq(cleaned, LAMBDA i : validate_property(df[i]).valid)
    IN  IF \E n \in 1..Len(cleaned) : validate_property(df[cleaned[n]]).raised
        THEN CleanRaised
        ELSE CleanReturn(df, cleaned, valid,
                         cleaning_report(Len(list), Len(cleaned), Len(valid)))

\* a record of the scraper; the keys it does not set are missing
ScrapedRecord(url, title, location, city_name, rooms, price) ==
    [k \in Keys |->
        CASE k = "url" -> Str(url, 40)
          [] k = "title" -> title
          [] k = "location" -> location
          [] k = "city_name" -> city_name
          [] k = "timestamp" -> Str("2024", 26)
          [] k = "price" -> price
          [] k = "rooms" -> rooms
          [] OTHER -> Missing]

\* the records the drawn lists are made of
CleanPool ==
    { ScrapedRecord("u1", Str("flat", 20), Missing, Str("Barcelona", 9),
                    IntV(3), FloatV(900)),
      ScrapedRecord("u2", Str("loft", 20), Missing, Str("Barcelona", 9),
                    Missing, Missing),
      ScrapedRecord("u1", Str("flat", 15), Missing, Str("Barcelona", 9),
                    IntV(2), Missing),
      ScrapedRecord("u3", Missing, Str("Eixample", 12), Str("Barcelona", 9),
                    Missing, Missing),
      ScrapedRecord("u4", Str("flat", 5), Missing, Str("Barcelona", 9),
                    IntV(1), FloatV(500)),
      ScrapedRecord("u5", Str("attic", 20), Missing, Str("Madrid", 6),
                    IntV(25), Missing),
      ScrapedRecord("u6", Missing, Missing, Missing, Missing, Missing) }

CleanLists == UNION { [1..n -> CleanPool] : n \in 0..MaxRecords }

CleanNotRun ==
    [ raised |-> FALSE, records |-> <<>>, kept |-> <<>>,
      report |-> cleaning_report(-1, -1, -1) ]

IdleClean == kInput = <<>> /\ kOnce = CleanNotRun /\ kTwice = CleanNotRun

InitClean == kInput \in CleanLists /\ kOnce = CleanNotRun /\ kTwice = CleanNotRun

\* clean_dataset on the drawn list
CleanOnce ==
    /\ kOnce = CleanNotRun
    /\ kOnce' = clean_dataset(kInput)
    /\ UNCHANGED <<kInput, kTwice>>
    /\ UNCHANGED <<priceVars, specVars, descVars, imageVars, validVars>>
    /\ UNCHANGED <<urlVars, discVars, mainVars, coreVars, moreVars>>

\* clean_dataset on the records the first call returned
CleanTwice ==
    /\ kOnce # CleanNotRun
    /\ ~kOnce.raised
    /\ kTwice = CleanNotRun
    /\ kTwice' = clean_dataset(kOnce.records)
    /\ UNCHANGED <<kInput, kOnce>>
    /\ UNCHANGED <<priceVars, specVars, descVars, imageVars, validVars>>
    /\ UNCHANGED <<urlVars, discVars, mainVars, coreVars, moreVars>>

-----------------------------------------------------------------------------
(* PropertyDataValidator.validate_dataset *)

\* a faulty variant of Round2: the digits after the second decimal are cut
Round2Truncated(num, den) == (num * 10000) \div den

\* round(num / den * 100, 2), in hundredths of a percent: the nearest
\* hundredth, a tie going to the even one
Round2(num, den) ==
    LET q == (num * 10000) \div den
        r == (num * 10000) % den
    IN  IF 2 * r > den THEN q + 1
        ELSE IF 2 * r < den THEN q
        ELSE IF q % 2 = 0 THEN q ELSE q + 1

\* df[field].notna().sum(): the rows that hold neither None nor NaN
non_null_count(df, field) ==
    Cardinality({ i \in 1..Len(df) : df[i][field].t \notin {"None", "nan"} })

\* for field in self.required_fields + self.numeric_fields:
\*     if field in df.columns: completeness[field] = ...
completeness_fields(df) ==
    { f \in { required_fields[i] : i \in 1..Len(required_fields) }
              \cup { numeric_fields[i] : i \in 1..Len(numeric_fields) } :
        \E i \in 1..Len(df) : df[i][f] # Missing }

\* df['url'].duplicated().sum() if 'url' in df.columns else 0
duplicate_urls(df) ==
    IF \A i \in 1..Len(df) : df[i]["url"] = Missing THEN 0
    ELSE Cardinality({ i \in 1..Len(df) :
                         \E j \in 1..(i - 1) : df[j]["url"] = df[i]["url"] })

\* return {"error": "Dataset vacío"}
ErrorReport ==
    [ error |-> TRUE, raised |-> FALSE, total_properties |-> 0,
      valid_properties |-> 0, validity_rate |-> 0,
      completeness_by_field |-> <<>>, duplicate_urls |-> 0,
      error_count |-> 0 ]

\* the TypeError of validate_property leaves validate_dataset
ReportRaised == [ErrorReport EXCEPT !.error = FALSE, !.raised = TRUE]

\* validate_dataset on a list of records; the rates are kept in hundredths of a
\* percent, as round(..., 2) leaves them
validate_dataset(list) ==
    IF list = <<>> THEN ErrorReport
    ELSE IF \E i \in 1..Len(list) :
                validate_property(list[i]).raised
    THEN ReportRaised
    ELSE
    LET total_properties == Len(list)
        valid_properties ==
            Cardinality({ i \in 1..total_properties :
                            validate_property(list[i]).valid })
        all_errors ==
            { <<i, e>> : i \in 1..total_properties, e \in
                             UNION { validate_property(list[j]).errors :
                                       j \in 1..total_properties } }
        df == DataFrame(list)
    IN  [ error |-> FALSE, raised |-> FALSE,
          total_properties |-> total_properties,
          valid_properties |-> valid_properties,
          validity_rate |-> Round2(valid_properties, total_properties),
          completeness_by_field |->
              [f \in completeness_fields(df) |->
                 Round2(non_null_count(df, f), total_properties)],
          duplicate_urls |-> duplicate_urls(df),
          error_count |->
              Cardinality({ p \in all_errors :
                  p[2] \in validate_property(list[p[1]]).errors }) ]

ReportNotRun == [ErrorReport EXCEPT !.total_properties = -1]

IdleReport == rInput = <<>> /\ rReport = ReportNotRun

InitReport == rInput \in CleanLists /\ rReport = ReportNotRun

\* validate_dataset on the drawn list
ValidateDataset ==
    /\ rReport = ReportNotRun
    /\ rReport' = validate_dataset(rInput)
    /\ UNCHANGED rInput
    /\ UNCHANGED <<priceVars, specVars, descVars, imageVars, validVars,
                   cleanVars, embedVars, searchVars,
                   registryVars>>
    /\ UNCHANGED <<urlVars, discVars, mainVars, coreVars, requestVars,
                   scrapeVars>>

-----------------------------------------------------------------------------
(* PropertyEmbeddingGenerator.process_properties_dataset *)

\* the embedding the API returns for a text, and the None of a failed batch
Vector(text) == <<"vector", text>>
NullVector == <<"None">>

\* texts[i:i + self.batch_size], i being the number of texts before it
BatchTexts(texts, i, size) ==
    SubSeq(texts, i + 1, IF i + size < Len(texts) THEN i + size
                         ELSE Len(texts))

\* create_embeddings_batch(texts) when the API answers:
\* [embedding.embedding for embedding in response.data]
create_embeddings_batch(batch_texts) ==
    [n \in 1..Len(batch_texts) |-> Vector(batch_texts[n])]

\* a faulty variant of NullEmbeddings: one None stands for the whole batch
NullEmbeddingsOnce(batch_texts) == <<NullVector>>

\* [None] * len(batch_texts)
NullEmbeddings(batch_texts) == [n \in 1..Len(batch_texts) |-> NullVector]

\* df['has_embedding'] = df['embedding'].notna()
has_embedding(embeddings) ==
    [n \in 1..Len(embeddings) |-> embeddings[n] # NullVector]

IdleEmbeddings ==
    /\ bPc = "idle" /\ bTexts = <<>> /\ batch_size = 1 /\ bI = 0
    /\ all_embeddings = <<>> /\ bBatches = <<>> /\ bHasEmbedding = <<>>

\* the texts prepared from the rows of the CSV file (a text is named by the
\* number of its row) and the batch size of the generator
InitEmbeddings ==
    /\ bPc = "batches"
    /\ bTexts \in { [n \in 1..k |-> n] : k \in 0..MaxTexts }
    /\ batch_size \in 1..MaxBatchSize
    /\ bI = 0
    /\ all_embeddings = <<>>
    /\ bBatches = <<>>
    /\ bHasEmbedding = <<>>

\* one pass of the loop over range(0, len(texts), self.batch_size) whose
\* create_embeddings_batch returns
BatchSucceeds ==
    /\ bPc = "batches"
    /\ bI < Len(bTexts)
    /\ all_embeddings' = all_embeddings
          \o create_embeddings_batch(BatchTexts(bTexts, bI, batch_size))
    /\ bBatches' = Append(bBatches, TRUE)
    /\ bI' = bI + batch_size
    /\ UNCHANGED <<bPc, bTexts, batch_size, bHasEmbedding>>
    /\ UNCHANGED <<priceVars, specVars, descVars, imageVars, validVars,
                   cleanVars, reportVars, searchVars,
                   registryVars>>
    /\ UNCHANGED <<urlVars, discVars, mainVars, coreVars, requestVars,
                   scrapeVars>>

\* one pass of the loop whose create_embeddings_batch raises: except
\* Exception: all_embeddings.extend([None] * len(batch_texts))
BatchFails ==
    /\ bPc = "batches"
    /\ bI < Len(bTexts)
    /\ all_embeddings' = all_embeddings
          \o NullEmbeddings(BatchTexts(bTexts, bI, batch_size))
    /\ bBatches' = Append(bBatches, FALSE)
    /\ bI' = bI + batch_size
    /\ UNCHANGED <<bPc, bTexts, batch_size, bHasEmbedding>>
    /\ UNCHANGED <<priceVars, specVars, descVars, imageVars, validVars,
                   cleanVars, reportVars, searchVars,
                   registryVars>>
    /\ UNCHANGED <<urlVars, discVars, mainVars, coreVars, requestVars,
                   scrapeVars>>

\* after the loop: df['embedding'] = all_embeddings (a list of another
\* length than the frame raises ValueError) and df['has_embedding']
AddColumns ==
    /\ bPc = "batches"
    /\ bI >= Len(bTexts)
    /\ IF Len(all_embeddings) = Len(bTexts)
       THEN bPc' = "done" /\ bHasEmbedding' = has_embedding(all_embeddings)
       ELSE bPc' = "ValueError" /\ UNCHANGED bHasEmbedding
    /\ UNCHANGED <<bTexts, batch_size, bI, all_embeddings, bBatches>>
    /\ UNCHANGED <<priceVars, specVars, descVars, imageVars, validVars,
                   cleanVars, reportVars, searchVars,
                   registryVars>>
    /\ UNCHANGED <<urlVars, discVars, mainVars, coreVars, requestVars,
                   scrapeVars>>

NextEmbeddings == BatchSucceeds \/ BatchFails \/ AddColumns

-----------------------------------------------------------------------------
(* PropertyVectorDB.search_properties: the where-clause of the query *)

\* dictionary d with key k set to v
DictSet(d, k, v) ==
    [x \in DOMAIN d \cup {k} |-> IF x = k THEN v ELSE d[x]]

EmptyDict == [k \in {} |-> ""]

\* if 'city' in filters: where_clause['city_code'] = filters['city']
WithCity(filters, where_clause) ==
    IF "city" \in DOMAIN filters
    THEN DictSet(where_clause, "city_code", filters["city"])
    ELSE where_clause

\* if 'min_price' in filters: where_clause['price'] = {"$gte": ...}
WithMinPrice(filters, where_clause) ==
    IF "min_price" \in DOMAIN filters
    THEN DictSet(where_clause, "price",
                 DictSet(EmptyDict, "$gte", filters["min_price"]))
    ELSE where_clause

\* a faulty variant of WithMaxPrice: the upper bound replaces the price entry
WithMaxPriceAlone(filters, where_clause) ==
    IF "max_price" \in DOMAIN filters
    THEN DictSet(where_clause, "price",
                 DictSet(EmptyDict, "$lte", filters["max_price"]))
    ELSE where_clause

\* if 'max_price' in filters: the bound joins the price entry when there is
\* one, else it makes it
WithMaxPrice(filters, where_clause) ==
    IF "max_price" \in DOMAIN filters
    THEN IF "price" \in DOMAIN where_clause
         THEN DictSet(where_clause, "price",
                      DictSet(where_clause["price"], "$lte", filters["max_price"]))
         ELSE DictSet(where_clause, "price",
                      DictSet(EmptyDict, "$lte", filters["max_price"]))
    ELSE where_clause

\* if 'min_rooms' in filters: where_clause['rooms'] = {"$gte": ...}
WithMinRooms(filters, where_clause) ==
    IF "min_rooms" \in DOMAIN filters
    THEN DictSet(where_clause, "rooms",
                 DictSet(EmptyDict, "$gte", filters["min_rooms"]))
    ELSE where_clause

\* where_clause of search_properties; filters is None or a dictionary
WhereClause(given, filters) ==
    IF ~given \/ DOMAIN filters = {} THEN EmptyDict
    ELSE WithMinRooms(filters,
           WithMaxPrice(filters,
             WithMinPrice(filters, WithCity(filters, EmptyDict))))

\* self.collection.query(...): with where=where_clause if where_clause
QueryCall(where_clause) ==
    [ called |-> TRUE, has_where |-> DOMAIN where_clause # {},
      where |-> where_clause ]

NoQuery == [called |-> FALSE, has_where |-> FALSE, where |-> EmptyDict]

\* the keys a filters dictionary can have and the values drawn for them (a
\* value is copied into the clause as it is, so a number is kept as its text)
FilterValues ==
    [ city |-> {"barcelona", "madrid"}, min_price |-> {"0", "800"},
      max_price |-> {"500", "2000"}, min_rooms |-> {"1", "3"},
      garden |-> {"yes"} ]

\* the filters drawn: None, and every dictionary over the keys
DrawnFilters ==
    { [given |-> FALSE, items |-> EmptyDict] }
      \cup { [given |-> TRUE, items |-> f] :
               f \in UNION { { g \in [keys -> UNION { FilterValues[k] : k \in keys }] :
                                 \A k \in keys : g[k] \in FilterValues[k] } :
                             keys \in SUBSET DOMAIN FilterValues } }

IdleSearch == fFilters = [given |-> FALSE, items |-> EmptyDict] /\ fQuery = NoQuery

InitSearch == fFilters \in DrawnFilters /\ fQuery = NoQuery

\* search_properties(query_text, n_results, filters) up to its query
SearchProperties ==
    /\ fQuery = NoQuery
    /\ fQuery' = QueryCall(WhereClause(fFilters.given, fFilters.items))
    /\ UNCHANGED fFilters
    /\ UNCHANGED <<priceVars, specVars, descVars, imageVars, validVars,
                   cleanVars, reportVars, embedVars,
                   registryVars>>
    /\ UNCHANGED <<urlVars, discVars, mainVars, coreVars, requestVars,
                   scrapeVars>>

-----------------------------------------------------------------------------
(* habitaclia/config/cities.py: validate_city and get_city_name *)

\* SPANISH_CITIES of the config module: the three entries it writes out
SPANISH_CITIES ==
    [barcelona |-> "Barcelona", madrid |-> "Madrid", valencia |-> "Valencia"]

\* return city_code in SPANISH_CITIES
validate_city(city_code) == city_code \in DOMAIN SPANISH_CITIES

\* return SPANISH_CITIES.get(city_code, city_code)
get_city_name(city_code) ==
    IF city_code \in DOMAIN SPANISH_CITIES THEN SPANISH_CITIES[city_code]
    ELSE city_code

\* the codes drawn: those of the scraper's registry and two of no registry
DrawnCodes == DOMAIN spanish_cities \cup {"atlantis", "ciudad_inexistente"}

NotCalled == "not called"

IdleRegistry ==
    yCode = "barcelona" /\ yValid = NotCalled /\ yName = NotCalled

InitRegistry ==
    yCode \in DrawnCodes /\ yValid = NotCalled /\ yName = NotCalled

\* validate_city(code); the result is kept as "True" or "False"
CallValidateCity ==
    /\ yValid = NotCalled
    /\ yValid' = IF validate_city(yCode) THEN "True" ELSE "False"
    /\ UNCHANGED <<yCode, yName>>
    /\ UNCHANGED <<priceVars, specVars, descVars, imageVars, validVars,
                   cleanVars, reportVars, embedVars, searchVars>>
    /\ UNCHANGED <<urlVars, discVars, mainVars, coreVars, requestVars,
                   scrapeVars>>

\* get_city_name(code)
CallGetCityName ==
    /\ yName = NotCalled
    /\ yName' = get_city_name(yCode)
    /\ UNCHANGED <<yCode, yValid>>
    /\ UNCHANGED <<priceVars, specVars, descVars, imageVars, validVars,
                   cleanVars, reportVars, embedVars, searchVars>>
    /\ UNCHANGED <<urlVars, discVars, mainVars, coreVars, requestVars,
                   scrapeVars>>

NextRegistry == CallValidateCity \/ CallGetCityName

-----------------------------------------------------------------------------
(* The GET requests: extract_property_links and extract_property_data of    *)
(* both scrapers, statement by statement up to the answer.  No other place  *)
(* of the scrapers calls session.get.                                       *)

\* self.user_agents of HabitacliaScraperImproved
improved_user_agents ==
    {"Chrome/Windows", "Chrome/Mac", "Chrome/Linux", "Firefox/Windows",
     "Firefox/Mac"}

\* self.user_agents of HabitacliaMultiCityScraper
user_agents == {"Chrome/Windows", "Chrome/Mac", "Chrome/Linux", "Firefox/Windows"}

\* the functions that make a request
ImprovedFetchers == {"main.extract_property_links", "main.extract_property_data"}
CoreFetchers == {"core.extract_property_links", "core.extract_property_data"}

\* the pool random.choice draws from in rotate_user_agent
UserAgentPool(fn) ==
    IF fn \in ImprovedFetchers THEN improved_user_agents ELSE user_agents

Rotation(ua) == [ev |-> "rotate", ua |-> ua]
\* time.sleep: the pacing wait before a request, the wait after a 403 or a
\* failed connection, and a wait of the caller between two calls
Wait(kind) == [ev |-> "wait", ua |-> kind]

\* how a GET can go: a status code, a RequestException or another Exception
GetOutcomes == {"200", "403", "404", "500", "RequestException", "Exception"}

\* a faulty variant of RetryPc: the User-Agent is rotated once, before the loop
RetryPcNoRotation == "sleep"

\* continue: the next pass of the loop of main.extract_property_links starts
\* at self.rotate_user_agent()
RetryPc == "rotate"

IdleRequests ==
    /\ qFn = "none" /\ qPc = "idle" /\ qAttempt = 0
    /\ session_user_agent = "python-requests"
    /\ qSince = <<>> /\ qBefore = <<>> /\ qSent = "" /\ qGets = 0

\* a scraper calls one of its two functions that make a request
CallFetcher ==
    /\ qPc = "idle"
    /\ qGets < MaxRequests
    /\ \E fn \in (IF qFn \in CoreFetchers THEN CoreFetchers
                  ELSE IF qFn \in ImprovedFetchers THEN ImprovedFetchers
                  ELSE ImprovedFetchers \cup CoreFetchers) : qFn' = fn
    /\ qPc' = "rotate"
    /\ qAttempt' = 0
    /\ UNCHANGED <<session_user_agent, qSince, qBefore, qSent, qGets>>
    /\ UNCHANGED <<priceVars, specVars, descVars, imageVars, validVars,
                   cleanVars, reportVars, embedVars, searchVars, registryVars>>
    /\ UNCHANGED <<urlVars, discVars, mainVars, coreVars, scrapeVars>>

\* between two calls the caller sleeps: between search pages, between
\* properties, between cities
CallerWaits ==
    /\ qPc = "idle"
    /\ qFn # "none"
    /\ Wait("caller") \notin { qSince[i] : i \in 1..Len(qSince) }
    /\ qSince' = Append(qSince, Wait("caller"))
    /\ UNCHANGED <<qFn, qPc, qAttempt, session_user_agent, qBefore, qSent, qGets>>
    /\ UNCHANGED <<priceVars, specVars, descVars, imageVars, validVars,
                   cleanVars, reportVars, embedVars, searchVars, registryVars>>
    /\ UNCHANGED <<urlVars, discVars, mainVars, coreVars, scrapeVars>>

\* self.rotate_user_agent(): new_ua = random.choice(self.user_agents);
\* self.session.headers.update({'User-Agent': new_ua})
RotateUserAgent ==
    /\ qPc = "rotate"
    /\ \E new_ua \in UserAgentPool(qFn) :
         /\ session_user_agent' = new_ua
         /\ qSince' = Append(qSince, Rotation(new_ua))
    /\ qPc' = "sleep"
    /\ UNCHANGED <<qFn, qAttempt, qBefore, qSent, qGets>>
    /\ UNCHANGED <<priceVars, specVars, descVars, imageVars, validVars,
                   cleanVars, reportVars, embedVars, searchVars, registryVars>>
    /\ UNCHANGED <<urlVars, discVars, mainVars, coreVars, scrapeVars>>

\* time.sleep(random.uniform(...)) before the request
PacingWait ==
    /\ qPc = "sleep"
    /\ qSince' = Append(qSince, Wait("pace"))
    /\ qPc' = "get"
    /\ UNCHANGED <<qFn, qAttempt, session_user_agent, qBefore, qSent, qGets>>
    /\ UNCHANGED <<priceVars, specVars, descVars, imageVars, validVars,
                   cleanVars, reportVars, embedVars, searchVars, registryVars>>
    /\ UNCHANGED <<urlVars, discVars, mainVars, coreVars, scrapeVars>>

\* main.extract_property_links after the answer of attempt `attempt`: 403
\* sleeps and continues, another status than 200 and 404 continues, a
\* RequestException sleeps and continues unless the attempt was the last;
\* everything else returns.  <<the waits made, the next place, attempt>>
AfterImprovedLinksGet(outcome, attempt) ==
    IF outcome = "403"
    THEN <<<<Wait("backoff")>>,
           IF attempt + 1 < max_retries THEN RetryPc ELSE "idle", attempt + 1>>
    ELSE IF outcome = "500"
    THEN <<<<>>, IF attempt + 1 < max_retries THEN RetryPc ELSE "idle",
           attempt + 1>>
    ELSE IF outcome = "RequestException" /\ attempt < max_retries - 1
    THEN <<<<Wait("backoff")>>, RetryPc, attempt + 1>>
    ELSE <<<<>>, "idle", attempt>>

\* response = self.session.get(url, timeout=...) and what the function does
\* with the answer up to its next request or its return
Get ==
    /\ qPc = "get"
    /\ qBefore' = qSince
    /\ qSent' = session_user_agent
    /\ qGets' = qGets + 1
    /\ \E outcome \in GetOutcomes :
         IF qFn = "main.extract_property_links"
         THEN LET after == AfterImprovedLinksGet(outcome, qAttempt)
              IN  /\ qSince' = after[1]
                  /\ qPc' = after[2]
                  /\ qAttempt' = after[3]
         ELSE /\ qSince' = <<>>
              /\ qPc' = "idle"
              /\ qAttempt' = qAttempt
    /\ UNCHANGED <<qFn, session_user_agent>>
    /\ UNCHANGED <<priceVars, specVars, descVars, imageVars, validVars,
                   cleanVars, reportVars, embedVars, searchVars, registryVars>>
    /\ UNCHANGED <<urlVars, discVars, mainVars, coreVars, scrapeVars>>

NextRequests == CallFetcher \/ CallerWaits \/ RotateUserAgent \/ PacingWait \/ Get

-----------------------------------------------------------------------------
(* HabitacliaMultiCityScraper.scrape_city, one call, with all_property_links *)
(* and unique_links kept as the lists the code builds                        *)

\* the orders a list(set(...)) of the set s can come in
ListsOfSet(s) ==
    { q \in [1..Cardinality(s) -> s] : { q[i] : i \in 1..Cardinality(s) } = s }

\* a faulty variant of city_unique_links: the gathered list is used as it is
city_unique_links_kept(links) == {links}

\* unique_links = list(set(all_property_links)), in any order
city_unique_links(links) ==
    ListsOfSet({ links[i] : i \in 1..Len(links) })

\* what extract_property_links(search_url, city_name) returns: [] on a status
\* other than 200 and on every exception, else list(set(property_links))
extract_property_links_list(fetch) ==
    IF fetch.raised # "" THEN <<>>
    ELSE IF fetch.code # 200 THEN <<>>
    ELSE unique_links(CorePropertyLinks(fetch.page, 1))

IdleScrape ==
    /\ tPc = "idle" /\ tCity = "" /\ tSearchUrls = <<>> /\ tIdx = 0
    /\ all_property_links = <<>> /\ tUniqueLinks = <<>> /\ tI = 0
    /\ city_properties = <<>>

\* scrape_city(city_code, "rent", max_pages) up to the loop over search_urls
CallScrapeCity ==
    /\ tPc = "idle"
    /\ \E city_code \in DOMAIN spanish_cities, max_pages \in CorePages :
         /\ tCity' = city_code
         /\ tSearchUrls' = get_search_urls(city_code, "rent", max_pages)
    /\ tPc' = "search"
    /\ tIdx' = 1
    /\ all_property_links' = <<>>
    /\ city_properties' = <<>>
    /\ UNCHANGED <<tUniqueLinks, tI>>
    /\ UNCHANGED <<priceVars, specVars, descVars, imageVars, validVars,
                   cleanVars, reportVars, embedVars, searchVars, registryVars,
                   requestVars>>
    /\ UNCHANGED <<urlVars, discVars, mainVars, coreVars>>

\* one pass of the loop over search_urls: all_property_links.extend(...);
\* after the last page unique_links = list(set(all_property_links))
ScrapeCitySearchPage ==
    /\ tPc = "search"
    /\ tIdx <= Len(tSearchUrls)
    /\ \E fetch \in SearchFetches :
         all_property_links' =
             all_property_links \o extract_property_links_list(fetch)
    /\ tIdx' = tIdx + 1
    /\ IF tIdx = Len(tSearchUrls)
       THEN /\ tPc' = "properties"
            /\ tUniqueLinks' \in city_unique_links(all_property_links')
            /\ tI' = 1
       ELSE /\ tPc' = "search"
            /\ UNCHANGED <<tUniqueLinks, tI>>
    /\ UNCHANGED <<tCity, tSearchUrls, city_properties>>
    /\ UNCHANGED <<priceVars, specVars, descVars, imageVars, validVars,
                   cleanVars, reportVars, embedVars, searchVars, registryVars,
                   requestVars>>
    /\ UNCHANGED <<urlVars, discVars, mainVars, coreVars>>

\* one pass of the loop over unique_links: extract_property_data, and
\* if property_data: city_properties.append(property_data)
ScrapeCityPropertyPage ==
    /\ tPc = "properties"
    /\ tI <= Len(tUniqueLinks)
    /\ \E fetch \in PropertyFetches :
         city_properties' =
             city_properties
                 \o extract_property_data(tUniqueLinks[tI], tCity, fetch)
    /\ tI' = tI + 1
    /\ UNCHANGED <<tPc, tCity, tSearchUrls, tIdx, all_property_links,
                   tUniqueLinks>>
    /\ UNCHANGED <<priceVars, specVars, descVars, imageVars, validVars,
                   cleanVars, reportVars, embedVars, searchVars, registryVars,
                   requestVars>>
    /\ UNCHANGED <<urlVars, discVars, mainVars, coreVars>>

\* return city_properties
ScrapeCityReturns ==
    /\ tPc = "properties"
    /\ tI > Len(tUniqueLinks)
    /\ tPc' = "returned"
    /\ UNCHANGED <<tCity, tSearchUrls, tIdx, all_property_links, tUniqueLinks,
                   tI, city_properties>>
    /\ UNCHANGED <<priceVars, specVars, descVars, imageVars, validVars,
                   cleanVars, reportVars, embedVars, searchVars, registryVars,
                   requestVars>>
    /\ UNCHANGED <<urlVars, discVars, mainVars, coreVars>>

NextScrapeCity ==
    \/ CallScrapeCity
    \/ ScrapeCitySearchPage
    \/ ScrapeCityPropertyPage
    \/ ScrapeCityReturns

-----------------------------------------------------------------------------
(* Properties of extract_property_links of HabitacliaScraperImproved *)

\* GET requests among the first i events of a log
GetsUpTo(log, i) == Cardinality({ j \in 1..i : log[j].ev = "get" })

Gets(log) == GetsUpTo(log, Len(log))

\* what answered the GET requests of a log
Answers(log) ==
    { i \in 1..Len(log) : log[i].ev \in {"status", "RequestException", "Exception"} }

\* after event i a wait of the back-off kind follows, and then either the
\* next attempt has begun or it is due
BackoffThenRetry(i) ==
    /\ i < Len(mLog)
    /\ mLog[i + 1] = Ev("backoff")
    /\ IF i + 1 = Len(mLog)
       THEN mPc = "links" /\ mAttempt < max_retries
       ELSE i + 4 <= Len(mLog)
            /\ SubSeq(mLog, i + 2, i + 4) = <<Ev("rotate"), Ev("pace"), Ev("get")>>

\* C1: a 403 is followed by a back-off wait and, while attempts are left, by
\* another attempt; a call issues at most max_retries GET requests; a call
\* answered 403 every time returns an empty list after max_retries requests;
\* and the attempt counter counts the requests of this call alone, so it is
\* zero when a call starts, whatever the calls before it used.
C1_ForbiddenRetriedWithinOwnBudget ==
    /\ Gets(mLog) <= max_retries
    /\ \A i \in 1..Len(mLog) :
         mLog[i] = Answer(403) =>
            /\ i < Len(mLog) /\ mLog[i + 1] = Ev("backoff")
            /\ GetsUpTo(mLog, i) < max_retries => BackoffThenRetry(i)
    /\ ( /\ mPc = "returned"
         /\ Answers(mLog) # {}
         /\ \A i \in Answers(mLog) : mLog[i] = Answer(403) )
       => Gets(mLog) = max_retries /\ mReturn = {}
    /\ mPc = "links" => mAttempt = Gets(mLog)

\* the second search URL of a run was answered 403 on each of its
\* max_retries attempts and its call returned
C1_Witness ==
    /\ mPc = "returned"
    /\ mIdx = 2
    /\ Gets(mLog) = max_retries
    /\ \A i \in Answers(mLog) : mLog[i] = Answer(403)
    /\ mReturn = {}

\* C2: a 404 is the last thing a call sees: the call has returned an empty
\* result, with no wait and no request after the 404.
C2_NotFoundEndsCall ==
    \A i \in 1..Len(mLog) :
        mLog[i] = Answer(404) =>
            /\ i = Len(mLog)
            /\ mPc = "returned"
            /\ mReturn = {}

\* a call returned on a 404 that answered its second attempt
C2_Witness ==
    /\ mPc = "returned"
    /\ Gets(mLog) = 2
    /\ mLog[Len(mLog)] = Answer(404)

\* C3: a status code other than 200, 403 and 404 is the last thing a call
\* sees: the call has returned an empty result without another request.
C3_OtherStatusSkipsPage ==
    \A i \in 1..Len(mLog) :
        (mLog[i].ev = "status" /\ mLog[i].code \notin {200, 403, 404}) =>
            /\ i = Len(mLog)
            /\ mPc = "returned"
            /\ mReturn = {}

\* C4: a transport failure on an attempt that is not the last is followed by
\* a back-off wait and another attempt; on the last attempt the call returns
\* an empty list; no exception leaves the call.
C4_TransportFailureRetriedThenGivenUp ==
    /\ mPc # "raised"
    /\ \A i \in 1..Len(mLog) :
         mLog[i] = Ev("RequestException") =>
            IF GetsUpTo(mLog, i) < max_retries
            THEN BackoffThenRetry(i)
            ELSE /\ i = Len(mLog)
                 /\ mPc = "returned"
                 /\ mReturn = {}

\* a call returned after max_retries attempts that all failed in the transport
C4_Witness ==
    /\ mPc = "returned"
    /\ Gets(mLog) = max_retries
    /\ Answers(mLog) # {}
    /\ \A i \in Answers(mLog) : mLog[i] = Ev("RequestException")
    /\ mReturn = {}

-----------------------------------------------------------------------------
(* Properties of scrape_multiple_cities and of the property calls *)

\* the cities scrape_city was called for, in the order of the calls
RECURSIVE ScrapedCities(_)
ScrapedCities(log) ==
    IF log = <<>> THEN <<>>
    ELSE IF Head(log).ev = "scrape_city"
         THEN Head(log).arg \o ScrapedCities(Tail(log))
         ELSE ScrapedCities(Tail(log))

\* the records of the cities whose scrape_city returned, in order
RECURSIVE ReturnedRecords(_)
ReturnedRecords(outcomes) ==
    IF outcomes = <<>> THEN <<>>
    ELSE Head(outcomes).returned \o ReturnedRecords(Tail(outcomes))

InRegistry(c) == c \in DOMAIN spanish_cities

Range(seq) == { seq[i] : i \in 1..Len(seq) }

\* C5: an error raised while a valid city is scraped is caught: the next
\* valid city is scraped right after it (or, after the last city, the call
\* returns), the accumulator holds the records of every city that returned,
\* in order, and the call returns the accumulator with every valid city
\* scraped.
C5_CityErrorDoesNotAbortBatch ==
    /\ \A j \in 1..Len(cLog) :
         cLog[j].ev = "except" =>
            IF j < Len(cLog)
            THEN cLog[j + 1].ev = "scrape_city"
            ELSE cPc = "returned" /\ cI = Len(cValid)
    /\ all_properties_data = ReturnedRecords(cOutcomes)
    /\ (cPc = "returned" /\ cValid # <<>>) =>
          /\ ScrapedCities(cLog) = cValid
          /\ cReturn = all_properties_data

\* a call returned whose first city raised and whose second city was scraped
\* and returned a record
C5_Witness ==
    /\ cPc = "returned"
    /\ Len(cOutcomes) = 2
    /\ cOutcomes[1].raised
    /\ cOutcomes[2].returned # <<>>
    /\ cReturn = cOutcomes[2].returned

\* C6: after an interrupt every record extracted before it, those of the
\* city in progress included, is in the accumulator.
C6_InterruptKeepsExtractedRecords ==
    cPc = "interrupted" =>
        \A k \in 1..Len(cCityProps) :
            cCityProps[k] \in Range(all_properties_data)

FetchFailed(f) == f.raised = "RequestException" \/ (f.raised = "" /\ f.code # 200)

HasRecord(records, url) == \E k \in 1..Len(records) : records[k].url = url

\* C7, as claimed: in both variants a property page whose fetch failed has
\* no record, and a record with status error stands for a page that was
\* fetched with 200 and whose parsing raised.
C7_FetchFailureGivesNoRecord ==
    /\ \A i \in 1..Len(cFetched) :
         FetchFailed(cFetched[i]) => ~HasRecord(cCityProps, cFetched[i].url)
    /\ \A k \in 1..Len(all_properties_data) :
         all_properties_data[k].status # "error"
    /\ \A k \in 1..Len(cCityProps) : cCityProps[k].status # "error"
    /\ \A i \in 1..Len(mFetched) :
         FetchFailed(mFetched[i]) => ~HasRecord(properties_data, mFetched[i].url)
    /\ \A k \in 1..Len(properties_data) :
         properties_data[k].status = "error" =>
            \E i \in 1..Len(mFetched) :
                /\ mFetched[i].url = properties_data[k].url
                /\ mFetched[i].code = 200
                /\ mFetched[i].raised = "ParseError"

\* C7, amended: a status other than 200 gives no record in either variant.
\* HabitacliaMultiCityScraper gives no record for any failure and never a
\* record with status error.  HabitacliaScraperImproved gives a record with
\* status error exactly for the pages whose call raised, in the transport
\* or in the parsing, and a record with status success for the others that
\* answered 200.
C7_FetchFailureRecords ==
    /\ \A i \in 1..Len(cFetched) :
         LET f == cFetched[i]
         IN  HasRecord(cCityProps, f.url) <=> (f.code = 200 /\ f.raised = "")
    /\ \A k \in 1..Len(all_properties_data) :
         all_properties_data[k].status = "success"
    /\ \A k \in 1..Len(cCityProps) : cCityProps[k].status = "success"
    /\ \A i \in 1..Len(mFetched) :
         LET f == mFetched[i]
             recs == { k \in 1..Len(properties_data) :
                         properties_data[k].url = f.url }
         IN  IF f.raised # ""
             THEN /\ Cardinality(recs) = 1
                  /\ \A k \in recs : /\ properties_data[k].status = "error"
                                     /\ properties_data[k].error = f.raised
             ELSE IF f.code # 200 THEN recs = {}
             ELSE /\ Cardinality(recs) = 1
                  /\ \A k \in recs : properties_data[k].status = "success"
    /\ \A k \in 1..Len(properties_data) :
         HasRecord(mFetched, properties_data[k].url)

\* HabitacliaScraperImproved holds a record with status error for a page
\* whose GET failed in the transport
C7_Witness ==
    \E i \in 1..Len(mFetched) :
        /\ mFetched[i].raised = "RequestException"
        /\ \E k \in 1..Len(properties_data) :
              /\ properties_data[k].url = mFetched[i].url
              /\ properties_data[k].status = "error"

\* C8: the cities scraped are the codes of the list that are in the
\* registry, once per occurrence and in the order of the list; a call with
\* no registered code returns an empty result with no request made.
C8_UnregisteredCitiesDropped ==
    /\ \A j \in 1..Len(ScrapedCities(cLog)) :
         /\ j <= Len(SelectSeq(cCities, InRegistry))
         /\ ScrapedCities(cLog)[j] = SelectSeq(cCities, InRegistry)[j]
    /\ cPc = "returned" => ScrapedCities(cLog) = SelectSeq(cCities, InRegistry)
    /\ (cPc = "returned" /\ \A i \in 1..Len(cCities) : ~InRegistry(cCities[i]))
          => /\ cReturn = <<>>
             /\ \A j \in 1..Len(cLog) : cLog[j].ev # "get"

\* a call with an unregistered code before a registered one returned, having
\* scraped the registered one alone
C8_Witness ==
    /\ cPc = "returned"
    /\ cCities = <<"atlantis", "barcelona">>
    /\ ScrapedCities(cLog) = <<"barcelona">>
    /\ \E j \in 1..Len(cLog) : cLog[j].ev = "get"

-----------------------------------------------------------------------------
(* Properties of get_search_urls and of the link discovery *)

\* {base}/{type}-{city}.htm
ExpectedFirstUrl(type, city) ==
    <<"http", "s://english.habitaclia.com", "/", type, "-", city, ".htm">>

\* {base}/{type}-{city}-{i}.htm, for a page number of one digit
ExpectedPageUrl(type, city, i) ==
    <<"http", "s://english.habitaclia.com", "/", type, "-", city, "-",
      DigitChar[i + 1], ".htm">>

\* the URLs named by the claim for n pages
IsExpectedUrls(urls, type, city, n) ==
    /\ Len(urls) = n
    /\ n >= 1 => urls[1] = ExpectedFirstUrl(type, city)
    /\ \A i \in 2..n : urls[i] = ExpectedPageUrl(type, city, i)

\* C9: for a registered city, a type of rent or homes and every page count n
\* both get_search_urls return exactly the n URLs of pages 1..n, in order.
C9_ExactlyNUrls ==
    (InRegistry(uCity) /\ uType \in {"rent", "homes"}) =>
        /\ uCore # NoUrls => IsExpectedUrls(uCore, uType, uCity, uPages)
        /\ uImproved # NoUrls => IsExpectedUrls(uImproved, uType, uCity, uPages)

\* the first selector of a list with a match on the page, 0 when none has
FirstMatching(page, sels) ==
    IF \E k \in 1..Len(sels) : Select(page, sels[k]) # {}
    THEN CHOOSE k \in 1..Len(sels) :
            /\ Select(page, sels[k]) # {}
            /\ \A j \in 1..(k - 1) : Select(page, sels[j]) = {}
    ELSE 0

\* C10, as claimed: the strategies that gave links are at most the first
\* selector with a match, in both variants.
C10_LinksFromFirstMatchingSelector ==
    /\ dCore # NotDiscovered =>
          dCore.contrib \subseteq {FirstMatching(dPage, selectors)}
    /\ dImproved # NotDiscovered =>
          dImproved.contrib \subseteq {FirstMatching(dPage, selectors_to_try)}

\* C10, amended: the links come from one strategy, never from several.  In
\* HabitacliaMultiCityScraper it is the first selector with a match.  In
\* HabitacliaScraperImproved it is the first selector with a match when one
\* of its matches passes the href filter, and else the search over all
\* anchors that follows the selector list; every link is the resolved href
\* of an anchor that strategy matched.
C10_LinksFromSingleStrategy ==
    /\ dCore # NotDiscovered =>
          /\ Cardinality(dCore.contrib) <= 1
          /\ dCore.contrib \subseteq {FirstMatching(dPage, selectors)}
          /\ \A l \in dCore.links :
                \E i \in Select(dPage, selectors[FirstMatching(dPage, selectors)]) :
                    l = Urljoin(base_url, dPage[i].href)
    /\ dImproved # NotDiscovered =>
          LET first == FirstMatching(dPage, selectors_to_try)
              kept  == IF first = 0 THEN {}
                       ELSE { i \in Select(dPage, selectors_to_try[first]) :
                                ImprovedKeeps(dPage[i].href) }
          IN  /\ Cardinality(dImproved.contrib) <= 1
              /\ dImproved.contrib \subseteq
                    (IF kept # {} THEN {first} ELSE {FallbackStrategy})
              /\ kept # {} =>
                    \A l \in dImproved.links :
                        \E i \in kept : l = Urljoin(base_url, dPage[i].href)
              /\ kept = {} =>
                    \A l \in dImproved.links :
                        \E i \in 1..Len(dPage) :
                            /\ Contains(dPage[i].href, <<"barcelona">>)
                            /\ l = Urljoin(base_url, dPage[i].href)

\* on a page where a selector matched, HabitacliaScraperImproved took its
\* links from the search over all anchors
C10_Witness ==
    /\ dImproved # NotDiscovered
    /\ dImproved.matched # {}
    /\ dImproved.contrib = {FallbackStrategy}

-----------------------------------------------------------------------------
(* Claims on the returned link list *)

NoDuplicates(list) ==
    \A i, j \in 1..Len(list) : list[i] = list[j] => i = j

\* a URL with the scheme and host of the configured base
IsAbsolute(url) == StartsWith(url, base_url) /\ Len(url) >= Len(base_url)

\* the absolute URL a relative or absolute href stands for
Resolved(href) ==
    IF StartsWith(href, base_url) THEN href
    ELSE IF href[1] = "/" THEN base_url \o href
    ELSE base_url \o <<"/">> \o href

\* the anchors the search over all anchors of main.py keeps
GeneralSearchKeeps(href) ==
    /\ href # <<>>
    /\ Contains(href, <<"barcelona">>)
    /\ Contains(href, <<".htm">>)

\* C11: when no selector of the list has given a link, the general search
\* over the anchors is made: the returned list holds the resolved URL of every
\* anchor that search keeps; the list holds no URL twice and only absolute
\* URLs.  In core.py the general selector a[href*="-i"] is tried on every
\* page, and its list too has no URL twice and only absolute URLs.
C11_CatchAllDedupedAbsolute ==
    /\ (dImproved # NotDiscovered /\ ImprovedSelectorList(dPage) = <<>>) =>
          /\ \A j \in 1..Len(dPage) :
                GeneralSearchKeeps(dPage[j].href) =>
                    Resolved(dPage[j].href) \in Range(dImprovedList)
          /\ \A i \in 1..Len(dImprovedList) : IsAbsolute(dImprovedList[i])
          /\ NoDuplicates(dImprovedList)
    /\ dCore # NotDiscovered =>
          /\ \A j \in 1..Len(dPage) :
                (Contains(dPage[j].href, <<"-", "i">>)
                    /\ CoreKeeps(dPage[j].href)) =>
                    Resolved(dPage[j].href) \in Range(dCoreList)
          /\ \A i \in 1..Len(dCoreList) : IsAbsolute(dCoreList[i])
          /\ NoDuplicates(dCoreList)

\* the general search ran after a selector matched without giving a link, it
\* kept the same relative href twice and returned its resolved URL once
C11_Witness ==
    /\ dImproved # NotDiscovered
    /\ ImprovedSelectorList(dPage) = <<>>
    /\ Len(dImprovedList) = 1
    /\ ~StartsWith(dPage[1].href, <<"http">>)
    /\ Len(ImprovedFallbackList(dPage)) = 2

\* the list and the set of links of a discovery agree
DiscoveryListsAgree ==
    /\ dImproved # NotDiscovered => Range(dImprovedList) = dImproved.links
    /\ dCore # NotDiscovered => Range(dCoreList) = dCore.links

-----------------------------------------------------------------------------
(* Claims on the price *)

PriceRule(data) ==
    /\ data.has_price => InPriceRange(data.price, 50, 50000000)
    /\ data.has_raw <=> data.has_price

\* C12: in both variants the data of _extract_price carries a price only
\* within [50, 50000000], and price_raw exactly when it carries a price.
C12_PriceInRangeWithRaw ==
    /\ pCore # NotExtracted => PriceRule(pCore)
    /\ pImproved # NotExtracted => PriceRule(pImproved)

\* the part of C12 that is about core.py alone
PriceRuleCore == pCore # NotExtracted => PriceRule(pCore)

\* the text is one number and the euro sign: digits alone, or digits grouped
\* by points, with or without two decimals after a comma
IsOneNumberEuro(text) ==
    /\ Len(text) >= 2
    /\ text[Len(text)] = "€"
    /\ LET num == SubSeq(text, 1, Len(text) - 1)
       IN  \/ \A i \in 1..Len(num) : IsDigit(num[i])
           \/ \E sh \in [d : 1..3, k : 0..(Len(num) \div 4), c : {0, 1}] :
                 /\ Shape(num, 1, price_patterns[1], sh)
                 /\ ShapeEnd(1, sh) = Len(num)

\* the whole number of such a text: points group thousands, a comma
\* starts the decimals
WholeNumber(text) ==
    LET num  == SubSeq(text, 1, Len(text) - 1)
        dig  == SelectSeq(num, LAMBDA c : c # ".")
        coms == { i \in 1..Len(dig) : dig[i] = "," }
        com  == IF coms = {} THEN Len(dig) + 1 ELSE CHOOSE i \in coms : TRUE
    IN  [units |-> ParseInt(SubSeq(dig, 1, com - 1)),
         frac  |-> SubSeq(dig, com + 1, Len(dig))]

\* C13: on a text that is one number and the euro sign, _extract_price of
\* core.py gives a price exactly when the whole number lies in
\* [50, 50000000], and the price is that whole number.
C13_WholeNumberParsed ==
    (pCore # NotExtracted /\ IsOneNumberEuro(get_text(pPage))) =>
        /\ pCore.has_price <=>
              InPriceRange(WholeNumber(get_text(pPage)), 50, 50000000)
        /\ pCore.has_price => pCore.price = WholeNumber(get_text(pPage))

\* the four texts the specification lists are handled as it says
C13_ListedExamples ==
    pCore # NotExtracted =>
        /\ get_text(pPage) = <<"1", ".", "2", "3", "4", ",", "5", "6", "€">> =>
              pCore.has_price
              /\ pCore.price = [units |-> 1234, frac |-> <<"5", "6">>]
        /\ get_text(pPage) = <<"5", "0", "€">> =>
              pCore.has_price /\ pCore.price.units = 50
        /\ get_text(pPage) = <<"4", "9", "€">> => ~pCore.has_price
        /\ get_text(pPage) = <<"5", "0", "0", "0", "0", "0", "0", "1", "€">> =>
              ~pCore.has_price

-----------------------------------------------------------------------------
(* Claims on rooms, bathrooms and area *)

\* the values of all matches of one pattern, left to right, each search
\* starting after the group of the match before it
RECURSIVE SpecFindAll(_, _, _)
SpecFindAll(pat, text, i) ==
    IF i > Len(text) THEN <<>>
    ELSE LET m == SpecMatchAt(pat, text, i)
         IN  IF m.ok THEN <<m.value>> \o SpecFindAll(pat, text, m.groupEnd + 1)
             ELSE SpecFindAll(pat, text, i + 1)

RECURSIVE SpecAllMatches(_, _, _)
SpecAllMatches(pats, k, text) ==
    IF k > Len(pats) THEN <<>>
    ELSE SpecFindAll(pats[k], text, 1) \o SpecAllMatches(pats, k + 1, text)

\* the first value in the range among the matches; 0 when there is none
FirstValueInRange(values, lo, hi) ==
    LET good == { i \in 1..Len(values) : lo <= values[i] /\ values[i] <= hi }
    IN  IF good = {} THEN 0
        ELSE values[CHOOSE i \in good : \A j \in good : i <= j]

\* C14: each of rooms, bathrooms and area is the first match (patterns in
\* order, then text order) whose value lies in the range of the field,
\* rooms 1..20, bathrooms 1..10, area 10..2000, and is absent only when no
\* match lies in the range.
C14_FirstMatchInRange ==
    sCore # SpecsNotRun =>
        /\ sCore.rooms =
              FirstValueInRange(SpecAllMatches(room_patterns, 1, sText), 1, 20)
        /\ sCore.bathrooms =
              FirstValueInRange(SpecAllMatches(bath_patterns, 1, sText), 1, 10)
        /\ sCore.area_m2 =
              FirstValueInRange(SpecAllMatches(area_patterns, 1, sText), 10, 2000)

\* what the fields do satisfy: a field that is set lies in the range the
\* code checks
SpecFieldsInCodeRange ==
    sCore # SpecsNotRun =>
        /\ sCore.rooms \in 0..20
        /\ sCore.bathrooms \in 0..10
        /\ sCore.area_m2 \in {0} \cup 20..2000

-----------------------------------------------------------------------------
(* Claims on the description *)

\* no white space other than single spaces
IsNormalized(text) ==
    /\ \A i \in 1..Len(text) : text[i].c = " " => text[i].n = 1
    /\ \A i \in 1..(Len(text) - 1) : ~(text[i].c = " " /\ text[i + 1].c = " ")

\* the text ends with three points
EndsWithEllipsis(text) ==
    /\ text # <<>>
    /\ text[Len(text)].c = "."
    /\ text[Len(text)].n >= 3

\* C15: a description is whitespace-normalized and at most 500 characters
\* long; one that was cut ends with an ellipsis marker, one that was not cut
\* is the normalized text of its element, unchanged.
C15_DescriptionCutWithEllipsis ==
    (eCore # DescriptionNotRun /\ eCore.has) =>
        /\ IsNormalized(eCore.description)
        /\ RunsLen(eCore.description) <= 500
        /\ eCore.cut => EndsWithEllipsis(eCore.description)
        /\ ~eCore.cut =>
              eCore.description = RunsNormalize(RunsStrip(eText[eCore.from]))

\* what the description does satisfy: everything of C15 but the marker
DescriptionNormalizedAndBounded ==
    (eCore # DescriptionNotRun /\ eCore.has) =>
        /\ IsNormalized(eCore.description)
        /\ RunsLen(eCore.description) <= 500
        /\ ~eCore.cut =>
              eCore.description = RunsNormalize(RunsStrip(eText[eCore.from]))
        /\ eCore.cut =>
              eCore.description =
                  RunsTake(RunsNormalize(RunsStrip(eText[eCore.from])), 500)

-----------------------------------------------------------------------------
(* Claims on the images *)

IsAbsoluteImage(url) ==
    /\ Len(url) >= 2
    /\ url[1] = "http"
    /\ url[2] = "s://images." \/ StartsWith(url, base_url)

\* the absolute URL a source stands for
ResolvedImage(src) ==
    IF IsAbsoluteImage(src) THEN src
    ELSE IF src[1] = "/" THEN base_url \o src
    ELSE base_url \o <<"/">> \o src

\* the absolute URLs of the images any selector of the list gives
ImageUnion(page, sels) ==
    { ResolvedImage(ImageSrc(page[i])) :
        i \in { j \in 1..Len(page) :
                  /\ ImageSrc(page[j]) # <<>>
                  /\ \E k \in 1..Len(sels) :
                        IF sels[k].kind = "src"
                        THEN page[j].src # <<>>
                             /\ Contains(page[j].src, sels[k].needle)
                        ELSE sels[k].cls \in page[j].ctx } }

ImageRule(data, page, sels, max_images) ==
    /\ Range(data.image_urls) \subseteq ImageUnion(page, sels)
    /\ Cardinality(ImageUnion(page, sels)) <= max_images =>
          Range(data.image_urls) = ImageUnion(page, sels)
    /\ \A i \in 1..Len(data.image_urls) : IsAbsoluteImage(data.image_urls[i])
    /\ NoDuplicates(data.image_urls)
    /\ Len(data.image_urls) <= max_images
    /\ data.image_count = Len(data.image_urls)

\* C16: image_urls is drawn from the union of what all image selectors give,
\* with relative sources made absolute, and is that whole union when it has
\* no more than max_images URLs; it holds no URL twice and at most max_images
\* entries (5 unless configured, always 5 in main.py); image_count is its
\* length.
C16_ImagesUnionDedupedCapped ==
    /\ iCore # ImagesNotRun =>
          ImageRule(iCore, iPage, image_selectors, ConfiguredMaxImages(iMaxImages))
    /\ iImproved # ImagesNotRun =>
          ImageRule(iImproved, iPage, img_selectors, 5)

\* a page on which two selectors give the same image, a source is relative
\* and the selectors give more URLs than the default limit keeps
C16_Witness ==
    /\ iCore # ImagesNotRun
    /\ iMaxImages = <<>>
    /\ Cardinality(ImageUnion(iPage, image_selectors)) > 5
    /\ Len(img_urls(iPage, image_selectors, 1))
          > Cardinality(ImageUnion(iPage, image_selectors))
    /\ iCore.image_count = 5
    /\ \E i \in 1..5 : StartsWith(iCore.image_urls[i], base_url)

-----------------------------------------------------------------------------
(* Claims on the validator *)

NonEmpty(rec, field) == HasKey(rec, field) /\ Truthy(rec[field])

\* the required-field rule as the claim states it
RequiredRuleClaimed(rec) ==
    /\ NonEmpty(rec, "url") /\ NonEmpty(rec, "city_name")
    /\ NonEmpty(rec, "timestamp")
    /\ NonEmpty(rec, "title") \/ NonEmpty(rec, "location")

\* C17: validate_property reports no missing required field exactly when
\* url, city_name and timestamp are non-empty and title or location is; a
\* record with a location, no title and no other defect is valid.
C17_TitleOrLocationSuffices ==
    vResult # ValidationNotRun =>
        /\ (\A e \in vResult.errors : e[1] # "required")
              <=> RequiredRuleClaimed(vRecord)
        /\ ( /\ RequiredRuleClaimed(vRecord)
             /\ NumericErrors(vRecord) = {}
             /\ TextErrors(vRecord) = {} ) => vResult.valid

\* what validate_property does require: the title, the url, the city name
\* and the timestamp, whatever the location
RequiredRuleOfCode ==
    vResult # ValidationNotRun =>
        ((\A e \in vResult.errors : e[1] # "required")
            <=> /\ NonEmpty(vRecord, "title") /\ NonEmpty(vRecord, "url")
                /\ NonEmpty(vRecord, "city_name")
                /\ NonEmpty(vRecord, "timestamp"))

-----------------------------------------------------------------------------
(* Claims on clean_dataset *)

\* the places of the first record of each URL whose record, as passed in,
\* validate_property accepts
ExpectedKept(list) ==
    SelectSeq([i \in 1..Len(list) |-> i],
              LAMBDA i : /\ \A j \in 1..(i - 1) : list[j]["url"] # list[i]["url"]
                         /\ validate_property(list[i]).valid)

\* C18: clean_dataset returns the sub-sequence of its input made of the
\* first record of each URL that validate_property accepts as it was passed
\* in, in the order of the input.
C18_CleanIsDedupThenValid ==
    kOnce # CleanNotRun =>
        /\ ~kOnce.raised
        /\ kOnce.kept = ExpectedKept(kInput)

\* two values are equal as Python compares them: a float equals the int of
\* the same value; a NaN is taken to equal the NaN at the same place
SameValue(a, b) ==
    \/ a = b
    \/ a.t \in {"int", "float"} /\ b.t \in {"int", "float"} /\ a.n = b.n

SameRecords(xs, ys) ==
    /\ Len(xs) = Len(ys)
    /\ \A i \in 1..Len(xs) : \A k \in Keys : SameValue(xs[i][k], ys[i][k])

\* C19: cleaning the cleaned records returns the same records and removes
\* no duplicate and no invalid record.
C19_CleanIdempotent ==
    kTwice # CleanNotRun =>
        /\ ~kTwice.raised
        /\ SameRecords(kTwice.records, kOnce.records)
        /\ kTwice.report.duplicates_removed = 0
        /\ kTwice.report.invalid_removed = 0

\* the first call removed a duplicate and an invalid record and returned a
\* record; the second call has run on what it returned
C19_Witness ==
    /\ kTwice # CleanNotRun
    /\ kOnce.report.duplicates_removed > 0
    /\ kOnce.report.invalid_removed > 0
    /\ Len(kOnce.records) > 0

\* C20: original_count = after_deduplication + duplicates_removed,
\* after_deduplication = after_validation + invalid_removed,
\* after_validation is the number of records returned, and no count is
\* negative.
C20_ReportAddsUp ==
    (kOnce # CleanNotRun /\ ~kOnce.raised) =>
        LET r == kOnce.report
        IN  /\ r.original_count = r.after_deduplication + r.duplicates_removed
            /\ r.after_deduplication = r.after_validation + r.invalid_removed
            /\ r.after_validation = Len(kOnce.records)
            /\ r.original_count = Len(kInput)
            /\ r.original_count >= 0 /\ r.after_deduplication >= 0
            /\ r.after_validation >= 0 /\ r.duplicates_removed >= 0
            /\ r.invalid_removed >= 0

\* a list with a duplicate and an invalid record was cleaned
C20_Witness ==
    /\ kOnce # CleanNotRun /\ ~kOnce.raised
    /\ kOnce.report.duplicates_removed > 0
    /\ kOnce.report.invalid_removed > 0
    /\ kOnce.report.after_validation > 0

-----------------------------------------------------------------------------
(* Claims on validate_dataset *)

\* the records of the list validate_property accepts
ValidCount(list) ==
    Cardinality({ i \in 1..Len(list) : validate_property(list[i]).valid })

\* the records of the list that have the key with a value other than None
NonNullCount(list, field) ==
    Cardinality({ i \in 1..Len(list) :
                    list[i][field] # Missing /\ list[i][field] # NoneV })

\* rate (in hundredths of a percent) is num / den * 100 exactly
IsExactRate(rate, num, den) == rate * den = num * 10000

\* rate (in hundredths of a percent) is a closest hundredth to num / den * 100
IsRoundedRate(rate, num, den) ==
    /\ 2 * (rate * den - num * 10000) <= den
    /\ 2 * (num * 10000 - rate * den) <= den

-----------------------------------------------------------------------------
(* Claims on the records of a run and on the JSON export *)

\* scrape_city returned and every property page of the city gave a record
CityClean(o) == ~o.raised /\ o.failed = 0

\* the unique links of the cities left, added up
RECURSIVE UniqueLinkCount(_)
UniqueLinkCount(outcomes) ==
    IF outcomes = <<>> THEN 0
    ELSE Cardinality(Head(outcomes).links) + UniqueLinkCount(Tail(outcomes))

\* the records are one per link: their urls are the links, none twice
OnePerLink(records, links) ==
    /\ { records[k].url : k \in 1..Len(records) } = links
    /\ Len(records) = Cardinality(links)

\* C22: after a run in which every property fetch succeeded the accumulator
\* holds one record per unique link of each scraped city, and a JSON export
\* has total_properties equal to the number of its properties and cities
\* equal to the distinct city_name values of those records, each once.
C22_OneRecordPerLinkAndExport ==
    /\ ( /\ cPc = "returned"
         /\ Len(cOutcomes) = Len(cValid)
         /\ \A i \in 1..Len(cOutcomes) : CityClean(cOutcomes[i]) )
       => /\ \A i \in 1..Len(cOutcomes) :
               /\ cOutcomes[i].city = cValid[i]
               /\ OnePerLink(cOutcomes[i].returned, cOutcomes[i].links)
               /\ \A k \in 1..Len(cOutcomes[i].returned) :
                    cOutcomes[i].returned[k].city_name = CityName(cValid[i])
          /\ all_properties_data = ReturnedRecords(cOutcomes)
          /\ Len(all_properties_data) = UniqueLinkCount(cOutcomes)
    /\ json_data.written
       => /\ json_data.properties = all_properties_data
          /\ json_data.total_properties = Len(json_data.properties)
          /\ DOMAIN json_data.cities
               = { json_data.properties[k].city_name :
                     k \in 1..Len(json_data.properties) }
          /\ \A name \in DOMAIN json_data.cities : json_data.cities[name] = 1

\* two cities with two unique links each gave four records, and the export
\* names both cities
C22_Witness ==
    /\ cPc = "returned"
    /\ Len(cOutcomes) = 2
    /\ \A i \in 1..2 : CityClean(cOutcomes[i])
                          /\ Cardinality(cOutcomes[i].links) = 2
    /\ Len(all_properties_data) = 4
    /\ json_data.written
    /\ Cardinality(DOMAIN json_data.cities) = 2

-----------------------------------------------------------------------------
(* Claims on process_properties_dataset *)

\* the batch the i-th text is sent in
BatchOf(i) == ((i - 1) \div batch_size) + 1

\* the batches a list of n texts is cut into
BatchCount(n) == (n + batch_size - 1) \div batch_size

\* C23: a failed batch gives every text of it a null vector, the batches
\* after it are still submitted, and the vectors have the length and order
\* of the records: record i has has_embedding exactly when its batch
\* succeeded.
C23_FailedBatchGivesNulls ==
    /\ bPc # "ValueError"
    /\ Len(all_embeddings) = (IF bI < Len(bTexts) THEN bI ELSE Len(bTexts))
    /\ \A i \in 1..Len(all_embeddings) :
         all_embeddings[i] = (IF bBatches[BatchOf(i)] THEN Vector(bTexts[i])
                              ELSE NullVector)
    /\ bPc = "done" =>
         /\ Len(bBatches) = BatchCount(Len(bTexts))
         /\ Len(bHasEmbedding) = Len(bTexts)
         /\ \A i \in 1..Len(bTexts) : bHasEmbedding[i] = bBatches[BatchOf(i)]

\* a batch of two texts failed, the batch after it succeeded, and the
\* columns were added
C23_Witness ==
    /\ bPc = "done"
    /\ batch_size = 2
    /\ Len(bBatches) >= 2
    /\ ~bBatches[1] /\ bBatches[2]
    /\ bHasEmbedding[1] = FALSE /\ bHasEmbedding[2] = FALSE
    /\ bHasEmbedding[3] = TRUE

-----------------------------------------------------------------------------
(* Claims on the where-clause of search_properties *)

\* the fields of the store the filters constrain
ConstrainedFields(f) ==
    (IF "city" \in DOMAIN f THEN {"city_code"} ELSE {})
      \cup (IF "min_price" \in DOMAIN f \/ "max_price" \in DOMAIN f
            THEN {"price"} ELSE {})
      \cup (IF "min_rooms" \in DOMAIN f THEN {"rooms"} ELSE {})

\* the bounds the filters put on the price
PriceBounds(f) ==
    (IF "min_price" \in DOMAIN f THEN {"$gte"} ELSE {})
      \cup (IF "max_price" \in DOMAIN f THEN {"$lte"} ELSE {})

\* C24: the where-clause has one entry per constrained field: city is an
\* equality on city_code, min_rooms a lower bound on rooms, min_price and
\* max_price one predicate on price with the bounds given; with no filter
\* the store is queried without a where-clause.
C24_WhereClauseFromFilters ==
    fQuery.called =>
        LET f == fFilters.items
            w == fQuery.where
        IN  /\ DOMAIN w = ConstrainedFields(f)
            /\ fQuery.has_where = (ConstrainedFields(f) # {})
            /\ "city" \in DOMAIN f => w["city_code"] = f["city"]
            /\ "min_rooms" \in DOMAIN f =>
                  /\ DOMAIN w["rooms"] = {"$gte"}
                  /\ w["rooms"]["$gte"] = f["min_rooms"]
            /\ "price" \in DOMAIN w =>
                  /\ DOMAIN w["price"] = PriceBounds(f)
                  /\ "min_price" \in DOMAIN f =>
                        w["price"]["$gte"] = f["min_price"]
                  /\ "max_price" \in DOMAIN f =>
                        w["price"]["$lte"] = f["max_price"]

\* a query made with a city and both price bounds
C24_Witness ==
    /\ fQuery.called /\ fQuery.has_where
    /\ DOMAIN fFilters.items = {"city", "min_price", "max_price"}
    /\ DOMAIN fQuery.where = {"city_code", "price"}
    /\ DOMAIN fQuery.where["price"] = {"$gte", "$lte"}

\* a query made without a where-clause: filters is None, is empty or holds
\* no key the translation knows
C24_WitnessNoFilter ==
    /\ fQuery.called /\ ~fQuery.has_where
    /\ DOMAIN fFilters.items = {"garden"}

-----------------------------------------------------------------------------
(* Claims on validate_city and get_city_name *)

\* C25: validate_city(code) is true exactly when code is a key of the city
\* registry (spanish_cities, the registry scrape_multiple_cities validates
\* against), and get_city_name(code) is the registered name of a registered
\* code and the code itself otherwise.
C25_RegistryLookup ==
    /\ yValid # NotCalled =>
          (yValid = "True") = (yCode \in DOMAIN spanish_cities)
    /\ yName # NotCalled => yName = CityName(yCode)

\* what the two functions do: they answer from the three entries the config
\* module holds, so they agree with the scraper's registry on those three
\* codes and on the codes of no registry
RegistryLookupOfConfig ==
    /\ yValid # NotCalled =>
          (yValid = "True") = (yCode \in {"barcelona", "madrid", "valencia"})
    /\ (yName # NotCalled /\ yCode \in DOMAIN SPANISH_CITIES) =>
          yName = spanish_cities[yCode]
    /\ (yName # NotCalled /\ yCode \notin DOMAIN SPANISH_CITIES) =>
          yName = yCode

-----------------------------------------------------------------------------
(* Claims on the requests *)

\* the rotations among the events
RotationsIn(events) == { i \in 1..Len(events) : events[i].ev = "rotate" }

\* C26: every GET, a retry included, is preceded, since the previous GET, by
\* one rotation of the User-Agent to a value of the fixed pool and, after
\* it, by one pacing wait; the request goes out with the value drawn; the
\* waits of a back-off and of the caller come before the rotation.
C26_RotationThenWaitBeforeGet ==
    qGets > 0 =>
        LET n == Len(qBefore)
        IN  /\ n >= 2
            /\ qBefore[n] = Wait("pace")
            /\ RotationsIn(qBefore) = {n - 1}
            /\ qBefore[n - 1].ua \in UserAgentPool(qFn)
            /\ qSent = qBefore[n - 1].ua
            /\ \A i \in 1..(n - 2) : qBefore[i] \in {Wait("backoff"), Wait("caller")}

\* the second attempt of main.extract_property_links has made its GET after
\* the wait that follows a 403 or a failed connection
C26_Witness ==
    /\ qGets >= 2
    /\ qFn = "main.extract_property_links"
    /\ qAttempt >= 1
    /\ Len(qBefore) = 3
    /\ qBefore[1] = Wait("backoff")
    /\ qBefore[2].ev = "rotate"

-----------------------------------------------------------------------------
(* Claims on the pacing between cities and on the order of a run *)

\* the places of the log where scrape_city is called
CityStarts(log) == { j \in 1..Len(log) : log[j].ev = "scrape_city" }

\* the between-cities waits of the log from place a to place b
CityWaits(log, a, b) == { j \in a..b : log[j].ev = "wait_cities" }

\* places a and b start two cities that follow one another
Consecutive(log, a, b) ==
    /\ a \in CityStarts(log) /\ b \in CityStarts(log) /\ a < b
    /\ \A j \in (a + 1)..(b - 1) : j \notin CityStarts(log)

\* C27: between the scraping of two consecutive valid cities there is
\* exactly one between-cities wait, whether or not the earlier city ended in
\* an error, and there is none after the last city.
C27_OneWaitBetweenCities ==
    /\ \A a, b \in CityStarts(cLog) :
         Consecutive(cLog, a, b) => Cardinality(CityWaits(cLog, a, b)) = 1
    /\ cPc = "returned" =>
         \A a \in CityStarts(cLog) :
            (\A b \in CityStarts(cLog) : b <= a)
               => CityWaits(cLog, a, Len(cLog)) = {}

\* what the code does: the wait follows a city that returned and is not the
\* last; a city that raised is followed by no wait
WaitAfterReturnedCityOnly ==
    /\ \A a, b \in CityStarts(cLog) :
         Consecutive(cLog, a, b) =>
            Cardinality(CityWaits(cLog, a, b))
               = (IF \E j \in a..b : cLog[j].ev = "except" THEN 0 ELSE 1)
    /\ cPc = "returned" =>
         \A a \in CityStarts(cLog) :
            (\A b \in CityStarts(cLog) : b <= a)
               => CityWaits(cLog, a, Len(cLog)) = {}

\* the URLs of the property pages requested so far for the city in progress
FetchedUrls(fetched) == { fetched[k].url : k \in 1..Len(fetched) }

\* the step requests a search page of the city in progress: no property
\* page of the city has been requested before it
SearchRequestInOrder ==
    (cI' = cI /\ cSearchIdx' > cSearchIdx) =>
        /\ cSearchIdx <= Len(cSearchUrls)
        /\ cFetched = <<>> /\ cFetched' = <<>>
        /\ cLog'[Len(cLog) + 3] = CEv("get", cSearchUrls[cSearchIdx])

\* the step requests a property page: every search page of the city has
\* been requested, and the page is a unique link of the city that has not
\* been requested before
PropertyRequestInOrder ==
    Len(cFetched') > Len(cFetched) =>
        /\ cI' = cI
        /\ cSearchIdx > Len(cSearchUrls)
        /\ Len(cFetched') = Len(cFetched) + 1
        /\ cFetched'[Len(cFetched')].url \in cAllLinks \ FetchedUrls(cFetched)
        /\ cLog'[Len(cLog) + 3] = CEv("get", cFetched'[Len(cFetched')].url)

\* the step leaves a city (for the next city or for the return): the city
\* failed, or all its search pages and every unique link have been
\* requested, each link once, and its records are appended in this step;
\* the next city is the one after it
CityLeftInOrder ==
    (cI > 0 /\ cPc \in {"search", "properties"}
            /\ (cI' # cI \/ cPc' = "returned")) =>
        /\ cI' # cI => cI' = cI + 1
        /\ Len(cOutcomes') = cI
        /\ cOutcomes'[cI].city = cValid[cI]
        /\ IF cOutcomes'[cI].raised
           THEN all_properties_data' = all_properties_data
           ELSE /\ cSearchIdx > Len(cSearchUrls)
                /\ FetchedUrls(cFetched) = cAllLinks
                /\ Len(cFetched) = Cardinality(cAllLinks)
                /\ all_properties_data' = all_properties_data \o cCityProps

\* no other step makes a request or touches the accumulator
OtherStepsQuiet ==
    (cI' = cI /\ cSearchIdx' = cSearchIdx /\ cFetched' = cFetched
        /\ ~(cPc \in {"search", "properties"} /\ cPc' = "returned")) =>
        /\ all_properties_data' = all_properties_data
        /\ \A j \in (Len(cLog) + 1)..Len(cLog') : cLog'[j].ev # "get"

\* C28: each city goes through its phases in order and one city at a time:
\* its search pages are requested before any of its property pages, every
\* unique link is requested exactly once, and the next city is entered only
\* in the step that appends the records of the city (or after it failed).
C28_PhasesInOrderOneCityAtATime ==
    [][ /\ SearchRequestInOrder
        /\ PropertyRequestInOrder
        /\ CityLeftInOrder
        /\ OtherStepsQuiet ]_vars

\* two cities were scraped and returned, the first after two search pages
\* and two property pages
C28_Witness ==
    /\ cPc = "returned"
    /\ Len(cOutcomes) = 2
    /\ ~cOutcomes[1].raised /\ ~cOutcomes[2].raised
    /\ cMaxPages = 2
    /\ Cardinality(cOutcomes[1].links) = 2
    /\ Len(cOutcomes[1].returned) = 2

-----------------------------------------------------------------------------
(* The records of one scrape_city call *)

\* the links the search pages of the city gave, without their repetitions
DiscoveredLinks == { all_property_links[i] : i \in 1..Len(all_property_links) }

\* C29: the records of one scrape_city call have pairwise distinct urls,
\* whatever links the search pages repeat, and are no more than the unique
\* links discovered for the city.
C29_DistinctUrlsPerCity ==
    /\ \A i, j \in 1..Len(city_properties) :
         i # j => city_properties[i].url # city_properties[j].url
    /\ Len(city_properties) <= Cardinality(DiscoveredLinks)
    /\ \A i \in 1..Len(city_properties) :
         city_properties[i].url \in DiscoveredLinks

\* scrape_city returned two records after its two search pages had repeated
\* a link
C29_Witness ==
    /\ tPc = "returned"
    /\ Len(tSearchUrls) = 2
    /\ Len(all_property_links) > Cardinality(DiscoveredLinks)
    /\ Len(city_properties) = 2

-----------------------------------------------------------------------------
(* The accumulator over a sequence of calls *)

\* s is the beginning of t, entry by entry
IsPrefix(s, t) == Len(s) <= Len(t) /\ SubSeq(t, 1, Len(s)) = s

\* the step leaves a city whose scrape_city raised
FailedCityStep ==
    /\ Len(cOutcomes') = Len(cOutcomes) + 1
    /\ cOutcomes'[Len(cOutcomes')].raised

\* the step is a call of scrape_multiple_cities
CallStep == cCalls' = cCalls + 1

\* C30: all_properties_data is append-only over any sequence of
\* scrape_multiple_cities calls on one scraper: what it held before a step
\* is a prefix of what it holds after it; a failed city and a call (with or
\* without a valid city) leave it as it was.
C30_AccumulatorAppendOnly ==
    [][ /\ IsPrefix(all_properties_data, all_properties_data')
        /\ FailedCityStep => all_properties_data' = all_properties_data
        /\ CallStep => all_properties_data' = all_properties_data ]_vars

\* the second call on a scraper has returned with one record, which follows
\* the two records of the first call in the accumulator
C30_Witness ==
    /\ cCalls = 2
    /\ cPc = "returned"
    /\ Len(cOutcomes) = 1
    /\ ~cOutcomes[1].raised
    /\ Len(cOutcomes[1].returned) = 1
    /\ Len(all_properties_data) = 3
    /\ all_properties_data[3] = cOutcomes[1].returned[1]

\* the city of the second call failed and the accumulator still holds the
\* records of the first call
C30_WitnessFailedCity ==
    /\ cCalls = 2
    /\ cPc = "returned"
    /\ Len(cOutcomes) = 1
    /\ cOutcomes[1].raised
    /\ all_properties_data # <<>>

\* the second call on a scraper had no valid city and the accumulator still
\* holds the records of the first call
C30_WitnessNoValidCity ==
    /\ cCalls = 2
    /\ cPc = "returned"
    /\ cCities = <<"atlantis">>
    /\ cValid = <<>>
    /\ all_properties_data # <<>>

-----------------------------------------------------------------------------
(* Specifications *)

IdleUrls ==
    /\ uCity = "barcelona" /\ uType = "rent" /\ uPages = 0
    /\ uImproved = NoUrls /\ uCore = NoUrls

IdleDiscover ==
    /\ dPage = <<>> /\ dImproved = NotDiscovered /\ dCore = NotDiscovered
    /\ dImprovedList = <<>> /\ dCoreList = <<>>

\* nothing is handed to validate_dataset or to the search package
IdleMore ==
    /\ IdleReport /\ IdleEmbeddings /\ IdleSearch /\ IdleRegistry
    /\ IdleRequests /\ IdleScrape

\* nothing is handed to the field extractors or to the validator
IdleData ==
    /\ IdlePrice /\ IdleSpecs /\ IdleDescription /\ IdleImages
    /\ IdleValidate /\ IdleClean /\ IdleMore

NextUrls == CallGetSearchUrlsImproved \/ CallGetSearchUrlsCore

NextDiscover == DiscoverImproved \/ DiscoverCore

\* arguments are drawn for get_search_urls
StartUrls == InitUrls /\ IdleDiscover /\ InitImproved /\ InitCore /\ IdleData

\* a search page is drawn for the link discovery
StartDiscover == IdleUrls /\ InitDiscover /\ InitImproved /\ InitCore /\ IdleData

\* a property page is drawn for the price extraction
StartPrice ==
    /\ IdleUrls /\ IdleDiscover /\ InitImproved /\ InitCore
    /\ InitPrice /\ IdleSpecs /\ IdleDescription /\ IdleImages
    /\ IdleValidate /\ IdleClean /\ IdleMore

NextPrice == ExtractPriceCore \/ ExtractPriceImproved

\* _extract_price of both variants on every drawn page
SpecPrice == StartPrice /\ [][NextPrice]_vars

\* a page text is drawn for the extraction of rooms, bathrooms and area
StartSpecs ==
    /\ IdleUrls /\ IdleDiscover /\ InitImproved /\ InitCore
    /\ IdlePrice /\ InitSpecs /\ IdleDescription /\ IdleImages
    /\ IdleValidate /\ IdleClean /\ IdleMore

\* _extract_specifications of core.py on every drawn text
SpecSpecifications == StartSpecs /\ [][ExtractSpecifications]_vars

\* description elements are drawn
StartDescription ==
    /\ IdleUrls /\ IdleDiscover /\ InitImproved /\ InitCore
    /\ IdlePrice /\ IdleSpecs /\ InitDescription /\ IdleImages
    /\ IdleValidate /\ IdleClean /\ IdleMore

\* _extract_description of core.py on every drawn page
SpecDescription == StartDescription /\ [][ExtractDescription]_vars

\* the images of a page and the max_images entry are drawn
StartImages ==
    /\ IdleUrls /\ IdleDiscover /\ InitImproved /\ InitCore
    /\ IdlePrice /\ IdleSpecs /\ IdleDescription /\ InitImages
    /\ IdleValidate /\ IdleClean /\ IdleMore

NextImages == ExtractImagesCore \/ ExtractImagesImproved

\* _extract_images of both variants on every drawn page
SpecImages == StartImages /\ [][NextImages]_vars

\* a record is drawn for validate_property
StartValidate ==
    /\ IdleUrls /\ IdleDiscover /\ InitImproved /\ InitCore
    /\ IdlePrice /\ IdleSpecs /\ IdleDescription /\ IdleImages
    /\ InitValidate /\ IdleClean /\ IdleMore

\* validate_property on every drawn record
SpecValidate == StartValidate /\ [][ValidateProperty]_vars

\* a list of records is drawn for clean_dataset
StartClean ==
    /\ IdleUrls /\ IdleDiscover /\ InitImproved /\ InitCore
    /\ IdlePrice /\ IdleSpecs /\ IdleDescription /\ IdleImages
    /\ IdleValidate /\ InitClean /\ IdleMore

NextClean == CleanOnce \/ CleanTwice

\* clean_dataset on every drawn list, and again on what it returned
SpecClean == StartClean /\ [][NextClean]_vars

\* a list of records is drawn for validate_dataset
StartReport ==
    /\ IdleUrls /\ IdleDiscover /\ InitImproved /\ InitCore
    /\ IdlePrice /\ IdleSpecs /\ IdleDescription /\ IdleImages
    /\ IdleValidate /\ IdleClean /\ InitReport /\ IdleEmbeddings
    /\ IdleSearch /\ IdleRegistry /\ IdleRequests /\ IdleScrape

\* validate_dataset on every drawn list
SpecReport == StartReport /\ [][ValidateDataset]_vars

\* the rows of a file and a batch size are drawn
StartEmbeddings ==
    /\ IdleUrls /\ IdleDiscover /\ InitImproved /\ InitCore
    /\ IdlePrice /\ IdleSpecs /\ IdleDescription /\ IdleImages
    /\ IdleValidate /\ IdleClean /\ IdleReport /\ InitEmbeddings
    /\ IdleSearch /\ IdleRegistry /\ IdleRequests /\ IdleScrape

\* process_properties_dataset on every drawn file, each batch failing or not
SpecEmbeddings == StartEmbeddings /\ [][NextEmbeddings]_vars

\* a filters argument is drawn for search_properties
StartSearch ==
    /\ IdleUrls /\ IdleDiscover /\ InitImproved /\ InitCore
    /\ IdlePrice /\ IdleSpecs /\ IdleDescription /\ IdleImages
    /\ IdleValidate /\ IdleClean /\ IdleReport /\ IdleEmbeddings
    /\ InitSearch /\ IdleRegistry /\ IdleRequests /\ IdleScrape

\* search_properties on every drawn filters argument
SpecSearch == StartSearch /\ [][SearchProperties]_vars

\* a city code is drawn for validate_city and get_city_name
StartRegistry ==
    /\ IdleUrls /\ IdleDiscover /\ InitImproved /\ InitCore
    /\ IdlePrice /\ IdleSpecs /\ IdleDescription /\ IdleImages
    /\ IdleValidate /\ IdleClean /\ IdleReport /\ IdleEmbeddings
    /\ IdleSearch /\ InitRegistry /\ IdleRequests /\ IdleScrape

\* validate_city and get_city_name on every drawn code
SpecRegistry == StartRegistry /\ [][NextRegistry]_vars

\* after construction of either scraper
Init == IdleUrls /\ IdleDiscover /\ InitImproved /\ InitCore /\ IdleData

\* get_search_urls of both variants on every drawn argument
SpecUrls == StartUrls /\ [][NextUrls]_vars

\* link discovery of both variants on every drawn page
SpecDiscover == StartDiscover /\ [][NextDiscover]_vars

\* one run of HabitacliaScraperImproved.scrape_properties
SpecImproved == Init /\ [][NextImproved]_vars

\* one run of HabitacliaMultiCityScraper.scrape_multiple_cities
SpecCities == Init /\ [][NextCore]_vars

\* the requests of a scraper, one statement at a time
SpecRequests == Init /\ [][NextRequests]_vars

\* one run of scrape_multiple_cities that no exception leaves, followed by
\* the JSON export
SpecExport == Init /\ [][NextExport]_vars

\* one run of scrape_multiple_cities that no interrupt ends
SpecRun == Init /\ [][NextRun]_vars

\* a process runs one of the two scrapers
Next ==
    \/ cPc = "idle" /\ NextImproved
    \/ mPc = "idle" /\ NextCore

\* a run of either scraper
Spec == Init /\ [][Next]_vars

\* one call of scrape_city, one statement at a time
SpecScrapeCity == Init /\ [][NextScrapeCity]_vars

\* calls of scrape_multiple_cities on one scraper, one after the other
SpecCalls == Init /\ [][NextCalls]_vars

====
